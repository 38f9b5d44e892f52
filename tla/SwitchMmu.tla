------------------------------ MODULE SwitchMmu -------------------------------
(***************************************************************************)
(* The buffer manager of the RDMA switch (class SwitchMmu, switch-mmu.cc), *)
(* as pure operations on its state m: a record with one field per run-time *)
(* counter of the class, under the source's names.  The two-dimensional    *)
(* arrays [port][q] are functions on PortQueue.  One event handler of the  *)
(* switch calls several of these operations in a row; the modules that     *)
(* own the state compose them.                                             *)
(*                                                                         *)
(* Both buffer models of the class are here ("sonic" and "reverie"), with  *)
(* the DT and FAB thresholds; the ABM threshold is not.  Real numbers of   *)
(* the code (alpha, gamma, saturation) are rationals with the denominators *)
(* AlphaUnit, GammaUnit and congestionIndicator, truncated where the code  *)
(* converts to uint64_t.                                                   *)
(*                                                                         *)
(* An operator named Op_Fault is not part of the model: it is Op with a    *)
(* fault that a property must be able to tell from Op.                     *)
(***************************************************************************)
EXTENDS Integers, FiniteSets, ByteTotals

CONSTANTS
  Ports,               \* ids of the switch's devices
  Queues,              \* priority queues of a port, 0 .. qCnt-1
  Packets,             \* the packets that may cross the switch, see PacketType
  bufferModel,         \* "sonic" or "reverie"
  ingressAlg,          \* threshold algorithm per traffic class at the ingress
  egressAlg,           \* and at the egress: "DT" or "FAB"
  bufferPool, ingressPool, sharedPool,  \* pool sizes in bytes
  egressPool,          \* pool size per traffic class
  reserveIngress, xoff, xon, xon_offset,       \* per port and queue, bytes
  alphaIngress, alphaEgress,                   \* in units of 1/AlphaUnit
  alphaHigh, AlphaUnit,
  Reveriegamma, GammaUnit,                     \* gamma = Reveriegamma/GammaUnit
  congestionIndicator,
  Uint64               \* number of values of uint64_t, scaled down

LOSSLESS == 0
LOSSY == 1
Classes == {LOSSLESS, LOSSY}

PortQueue == Ports \X Queues

\* A packet as SendToDev classifies it: the device it came in on, the device
\* the routing table gives, its queue, its class (LOSSY iff it carries a
\* MyPriorityTag), its size and whether it is tagged as unscheduled.
\* The field id only tells apart packets that agree in everything else.
PacketType(p) ==
  /\ p.inDev \in Ports /\ p.outDev \in Ports /\ p.qIndex \in Queues
  /\ p.type \in Classes
  /\ p.size \in Nat \ {0}
  /\ p.unsched \in BOOLEAN

ASSUME MmuConfiguration ==
  /\ IsFiniteSet(Ports) /\ IsFiniteSet(Queues) /\ 0 \in Queues
  /\ \A p \in Packets : PacketType(p)
  /\ bufferModel \in {"sonic", "reverie"}
  /\ ingressAlg \in [Classes -> {"DT", "FAB"}]
  /\ egressAlg \in [Classes -> {"DT", "FAB"}]
  /\ {bufferPool, ingressPool, sharedPool} \subseteq Nat
  /\ egressPool \in [Classes -> Nat]
  /\ {reserveIngress, xoff, xon, xon_offset} \subseteq [PortQueue -> Nat]
  /\ {alphaIngress, alphaEgress} \subseteq [PortQueue -> Nat]
  /\ alphaHigh \in Nat /\ AlphaUnit \in Nat \ {0}
  /\ GammaUnit \in Nat \ {0} /\ Reveriegamma \in 0 .. GammaUnit
  /\ congestionIndicator \in Nat \ {0}
  /\ Uint64 \in Nat \ {0}

In(p) == <<p.inDev, p.qIndex>>
Out(p) == <<p.outDev, p.qIndex>>

\* SetHeadroom and SetReserved keep these two sums while the simulation is
\* configured; neither changes once traffic flows.
xoffTotal == Total(PortQueue, xoff)
totalIngressReserved == Total(PortQueue, reserveIngress)

\* Every counter a natural number.  (The sums NofP are floating point in the
\* code; that they cannot become negative is a matter of CongestionCounted.)
MmuType ==
  [ingress_bytes : [PortQueue -> Nat],
   egress_bytes : [PortQueue -> Nat],
   xoffUsed : [PortQueue -> Nat],
   paused : [PortQueue -> BOOLEAN],
   ingressLpf_bytes : [PortQueue -> Nat],
   egressLpf_bytes : [PortQueue -> Nat],
   congestedIngress : [PortQueue -> Nat],
   congestedEgress : [PortQueue -> Nat],
   NofPIngress : [Queues -> Int],
   NofPEgress : [Queues -> Int],
   totalUsed : Nat,
   xoffTotalUsed : Nat,
   totalIngressReservedUsed : Nat,
   sharedPoolUsed : Nat,
   egressPoolUsed : [Classes -> Nat]]

\* The state after the constructor.
NewMmu ==
  [ingress_bytes |-> [i \in PortQueue |-> 0],
   egress_bytes |-> [i \in PortQueue |-> 0],
   xoffUsed |-> [i \in PortQueue |-> 0],
   paused |-> [i \in PortQueue |-> FALSE],
   ingressLpf_bytes |-> [i \in PortQueue |-> 0],
   egressLpf_bytes |-> [i \in PortQueue |-> 0],
   congestedIngress |-> [i \in PortQueue |-> 0],
   congestedEgress |-> [i \in PortQueue |-> 0],
   NofPIngress |-> [q \in Queues |-> 0],
   NofPEgress |-> [q \in Queues |-> 0],
   totalUsed |-> 0,
   xoffTotalUsed |-> 0,
   totalIngressReservedUsed |-> 0,
   sharedPoolUsed |-> 0,
   egressPoolUsed |-> [c \in Classes |-> 0]]

Smaller(a, b) == IF a <= b THEN a ELSE b
Larger(a, b) == IF a >= b THEN a ELSE b

\* The guarded subtraction the class uses on its unsigned counters.
Monus(a, b) == IF a >= b THEN a - b ELSE 0

-------------------------------------------------------------------------------
(* Thresholds *)

GetIngressReservedUsed(m, i) == Smaller(m.ingress_bytes[i], reserveIngress[i])

\* An unguarded subtraction of uint64_t: it wraps when negative.
GetIngressSharedUsed(m) ==
  (m.totalUsed - m.xoffTotalUsed - m.totalIngressReservedUsed) % Uint64

\* Every threshold is alpha times what remains of a pool, zero when nothing does.
ShareOf(pool, used, alpha, den) == (alpha * Monus(pool, used)) \div den

\* FAB gives unscheduled packets alphaHigh; DT ignores the tag.
Alpha(alg, alpha, unsched) ==
  IF alg = "FAB" /\ unsched THEN alphaHigh ELSE alpha

IngressThreshold(m, i, type, unsched) ==
  ShareOf((ingressPool - totalIngressReserved) % Uint64, GetIngressSharedUsed(m),
          Alpha(ingressAlg[type], alphaIngress[i], unsched), AlphaUnit)

EgressThreshold(m, i, type, unsched) ==
  ShareOf(egressPool[type], m.egressPoolUsed[type],
          Alpha(egressAlg[type], alphaEgress[i], unsched), AlphaUnit)

\* setCongested: a queue's saturation level (of at most one, here of at most
\* congestionIndicator) replaces the one it last reported in the sum NofP of
\* its priority.
Saturation(bytes) == Smaller(bytes, congestionIndicator)

\* Fault: the level last reported stays in the sum.
setCongestedIngress_Adds(m, i) ==
  LET level == Saturation(m.ingressLpf_bytes[i])
  IN  [m EXCEPT !.NofPIngress[i[2]] = @ + level, !.congestedIngress[i] = level]

setCongestedIngress(m, i) ==
  LET level == Saturation(m.ingressLpf_bytes[i])
  IN  [m EXCEPT !.NofPIngress[i[2]] = @ + level - m.congestedIngress[i],
                !.congestedIngress[i] = level]

setCongestedEgress(m, i) ==
  LET level == Saturation(m.egressLpf_bytes[i])
  IN  [m EXCEPT !.NofPEgress[i[2]] = @ + level - m.congestedEgress[i],
                !.congestedEgress[i] = level]

\* 1/max(NofP, 1) with NofP counted in units of 1/congestionIndicator.
ReverieShare(m, alpha, nofP) ==
  ShareOf(sharedPool, m.sharedPoolUsed, alpha * congestionIndicator,
          AlphaUnit * Larger(nofP, congestionIndicator))

\* ReverieThreshold calls setCongested before it computes its result.
ReverieLosslessThreshold(m, i) ==
  ReverieShare(m, alphaIngress[i], setCongestedIngress(m, i).NofPIngress[i[2]])

ReverieLossyThreshold(m, i, unsched) ==
  ReverieShare(m, IF unsched THEN alphaHigh ELSE alphaEgress[i],
               setCongestedEgress(m, i).NofPEgress[i[2]])

\* The threshold PFC works with, and the occupancy it is compared to.
LosslessThreshold(m, i, unsched) ==
  IF bufferModel = "sonic" THEN IngressThreshold(m, i, LOSSLESS, unsched)
                           ELSE ReverieLosslessThreshold(m, i)

LosslessOccupancy(m, i) ==
  IF bufferModel = "sonic" THEN m.ingress_bytes[i] ELSE m.ingressLpf_bytes[i]

-------------------------------------------------------------------------------
(* Admission *)

\* Fault: the limit xoff of a queue is not checked, only the headroom pool.
CheckIngressLossless_NoLimit(m, p) ==
  /\ m.xoffUsed[In(p)] = 0 \/ p.size + m.xoffTotalUsed <= xoffTotal
  /\ p.size + m.totalUsed <= ingressPool + xoffTotal
  /\ p.size + m.totalUsed <= bufferPool

\* Lossless packets: a queue that is not yet in its headroom is stopped by the
\* pools only; one that is must fit its reservation or its headroom limit, and
\* the headroom pool.
CheckIngressLossless(m, p) ==
  /\ \/ m.xoffUsed[In(p)] = 0
     \/ /\ \/ p.size + m.ingress_bytes[In(p)] <= reserveIngress[In(p)]
           \/ p.size + m.xoffUsed[In(p)] <= xoff[In(p)]
        /\ p.size + m.xoffTotalUsed <= xoffTotal
  /\ p.size + m.totalUsed <= ingressPool + xoffTotal
  /\ p.size + m.totalUsed <= bufferPool

CheckIngressLossySonic(m, p) ==
  /\ \/ p.size + m.ingress_bytes[In(p)] <= IngressThreshold(m, In(p), LOSSY, p.unsched)
     \/ p.size + m.ingress_bytes[In(p)] <= reserveIngress[In(p)]
  /\ p.size + (m.totalUsed - m.xoffTotalUsed) <= ingressPool
  /\ p.size + m.totalUsed <= bufferPool

CheckIngressAdmission(m, p) ==
  IF p.type = LOSSLESS THEN CheckIngressLossless(m, p)
  ELSE bufferModel = "reverie" \/ CheckIngressLossySonic(m, p)

\* Fault: the egress pool is compared without the arriving packet.
CheckEgressSonic_Late(m, p) ==
  /\ p.size + m.egress_bytes[Out(p)] <= EgressThreshold(m, Out(p), p.type, p.unsched)
  /\ m.egressPoolUsed[p.type] <= egressPool[p.type]
  /\ p.size + m.totalUsed <= bufferPool

CheckEgressSonic(m, p) ==
  /\ p.size + m.egress_bytes[Out(p)] <= EgressThreshold(m, Out(p), p.type, p.unsched)
  /\ p.size + m.egressPoolUsed[p.type] <= egressPool[p.type]
  /\ p.size + m.totalUsed <= bufferPool

CheckEgressLossyReverie(m, p) ==
  /\ p.size + m.egressLpf_bytes[Out(p)] <= ReverieLossyThreshold(m, Out(p), p.unsched)
  /\ p.size + m.sharedPoolUsed <= sharedPool
  /\ p.size + m.totalUsed <= bufferPool

CheckEgressAdmission(m, p) ==
  IF bufferModel = "sonic" THEN CheckEgressSonic(m, p)
  ELSE p.type = LOSSLESS \/ CheckEgressLossyReverie(m, p)

Admits(m, p) == CheckIngressAdmission(m, p) /\ CheckEgressAdmission(m, p)

\* What the two checks leave behind: under "reverie" each threshold they
\* compute, for the comparison or for the message that reports a drop, has
\* recorded the queue's saturation.
AfterChecks(m, p) ==
  IF bufferModel = "sonic" THEN m
  ELSE IF p.type = LOSSY THEN setCongestedEgress(m, Out(p))
  ELSE IF CheckIngressAdmission(m, p) THEN m
  ELSE setCongestedIngress(m, In(p))

-------------------------------------------------------------------------------
(* Accounting *)

\* Fault: the reserved use before this packet is not taken out of the sum first.
CountIngress_ReservedTwice(m, p) ==
  LET i == In(p)
      new == Smaller(m.ingress_bytes[i] + p.size, reserveIngress[i])
  IN  [m EXCEPT
        !.ingress_bytes[i] = @ + p.size,
        !.totalUsed = @ + p.size,
        !.totalIngressReservedUsed = @ + new,
        !.sharedPoolUsed = IF p.type = LOSSLESS THEN @ + p.size ELSE @]

\* The part of UpdateIngressAdmission before the headroom is looked at.
CountIngress(m, p) ==
  LET i == In(p)
      old == GetIngressReservedUsed(m, i)
      new == Smaller(m.ingress_bytes[i] + p.size, reserveIngress[i])
      counted == [m EXCEPT
        !.ingress_bytes[i] = @ + p.size,
        !.totalUsed = @ + p.size,
        !.totalIngressReservedUsed = Monus(@, old) + new,
        !.sharedPoolUsed = IF p.type = LOSSLESS THEN @ + p.size ELSE @]
  IN  IF bufferModel = "reverie" /\ p.type = LOSSLESS
      THEN setCongestedIngress(counted, i) ELSE counted

\* Fault: a lossy packet of a queue in its headroom is charged as well.
EntersHeadroom_AnyClass(m, p) ==
  \/ m.xoffUsed[In(p)] > 0
  \/ p.type = LOSSLESS
       /\ LosslessOccupancy(m, In(p)) > LosslessThreshold(m, In(p), p.unsched)

\* A lossless packet is charged to the headroom if its queue is in the headroom
\* already or, counting this packet, exceeds the threshold.
EntersHeadroom(m, p) ==
  /\ p.type = LOSSLESS
  /\ \/ m.xoffUsed[In(p)] > 0
     \/ LosslessOccupancy(m, In(p)) > LosslessThreshold(m, In(p), p.unsched)

UpdateIngressAdmission(m, p) ==
  LET c == CountIngress(m, p)
  IN  IF EntersHeadroom(c, p)
      THEN [c EXCEPT !.xoffUsed[In(p)] = @ + p.size,
                     !.xoffTotalUsed = @ + p.size,
                     !.sharedPoolUsed = @ - p.size]
      ELSE c

\* Fault: the bytes are counted at the egress queue of the ingress port.
UpdateEgressAdmission_WrongPort(m, p) ==
  [m EXCEPT !.egress_bytes[In(p)] = @ + p.size,
            !.egressPoolUsed[p.type] = @ + p.size,
            !.sharedPoolUsed = IF p.type = LOSSY THEN @ + p.size ELSE @]

\* Fault: lossy packets are not counted in the shared pool.
UpdateEgressAdmission_NotShared(m, p) ==
  [m EXCEPT !.egress_bytes[Out(p)] = @ + p.size,
            !.egressPoolUsed[p.type] = @ + p.size]

UpdateEgressAdmission(m, p) ==
  [m EXCEPT !.egress_bytes[Out(p)] = @ + p.size,
            !.egressPoolUsed[p.type] = @ + p.size,
            !.sharedPoolUsed = IF p.type = LOSSY THEN @ + p.size ELSE @]

\* Fault: the average alone, which lags behind a queue that drains.
Lpf_Uncapped(lpf, bytes) ==
  (Reveriegamma * lpf + (GammaUnit - Reveriegamma) * bytes) \div GammaUnit

\* The low-pass filter of Reverie, never above the occupancy it filters.
Lpf(lpf, bytes) ==
  Smaller((Reveriegamma * lpf + (GammaUnit - Reveriegamma) * bytes) \div GammaUnit,
          bytes)

\* Fault: the filter sees the occupancy before the departure.
UncountIngress_FilterFirst(m, p) ==
  LET i == In(p)
      old == GetIngressReservedUsed(m, i)
      left == Monus(m.ingress_bytes[i], p.size)
  IN  [m EXCEPT
        !.ingressLpf_bytes[i] =
          IF p.type = LOSSLESS THEN Lpf(@, m.ingress_bytes[i]) ELSE @,
        !.ingress_bytes[i] = left,
        !.totalUsed = Monus(@, p.size),
        !.totalIngressReservedUsed = Monus(@, old) + Smaller(left, reserveIngress[i])]

UncountIngress(m, p) ==
  LET i == In(p)
      old == GetIngressReservedUsed(m, i)
      left == Monus(m.ingress_bytes[i], p.size)
  IN  [m EXCEPT
        !.ingress_bytes[i] = left,
        !.totalUsed = Monus(@, p.size),
        !.totalIngressReservedUsed = Monus(@, old) + Smaller(left, reserveIngress[i]),
        !.ingressLpf_bytes[i] = IF p.type = LOSSLESS THEN Lpf(@, left) ELSE @]

\* Fault: bytes that leave the headroom are taken out of the shared pool as well.
LeaveHeadroom_Twice(m, p) ==
  LET i == In(p)
      used == m.xoffUsed[i]
  IN  [m EXCEPT
        !.xoffUsed[i] = Monus(used, p.size),
        !.xoffTotalUsed = Monus(@, used) + Monus(used, p.size),
        !.sharedPoolUsed = @ - p.size]

\* A departing lossless packet empties the headroom first; what the headroom
\* does not cover leaves the shared pool.
LeaveHeadroom(m, p) ==
  LET i == In(p)
      used == m.xoffUsed[i]
  IN  [m EXCEPT
        !.xoffUsed[i] = Monus(used, p.size),
        !.xoffTotalUsed = Monus(@, used) + Monus(used, p.size),
        !.sharedPoolUsed = IF used = 0 THEN Monus(@, p.size)
                           ELSE @ - Monus(p.size, used)]

RemoveFromIngressAdmission(m, p) ==
  LET c == UncountIngress(m, p)
  IN  IF p.type = LOSSLESS THEN LeaveHeadroom(c, p) ELSE c

RemoveFromEgressAdmission(m, p) ==
  LET o == Out(p)
      left == Monus(m.egress_bytes[o], p.size)
      counted == [m EXCEPT !.egress_bytes[o] = left,
                           !.egressPoolUsed[p.type] = Monus(@, p.size)]
  IN  IF p.type = LOSSLESS THEN counted
      ELSE [counted EXCEPT !.sharedPoolUsed = Monus(@, p.size),
                           !.egressLpf_bytes[o] = Lpf(@, left)]

-------------------------------------------------------------------------------
(* PFC *)

\* Fault: the peer is paused when the headroom is full, not when it is entered.
CheckShouldPause_Late(m, i) ==
  ~m.paused[i] /\ m.xoffUsed[i] > 0 /\ m.xoffUsed[i] >= xoff[i]

CheckShouldPause(m, i) == ~m.paused[i] /\ m.xoffUsed[i] > 0

BelowXon(m, i) == LosslessOccupancy(m, i) < xon[i]

\* Fault: the peer is resumed while its queue is still in the headroom.
CheckShouldResume_InHeadroom(m, i) ==
  /\ m.paused[i]
  /\ \/ BelowXon(m, i)
     \/ LosslessOccupancy(m, i) + xon_offset[i] <= LosslessThreshold(m, i, FALSE)

\* Fault: the threshold alone decides, which falls when others fill the pool.
CheckShouldResume_NoXon(m, i) ==
  /\ m.paused[i]
  /\ m.xoffUsed[i] = 0
  /\ LosslessOccupancy(m, i) + xon_offset[i] <= LosslessThreshold(m, i, FALSE)

CheckShouldResume(m, i) ==
  /\ m.paused[i]
  /\ m.xoffUsed[i] = 0
  /\ \/ BelowXon(m, i)
     \/ LosslessOccupancy(m, i) + xon_offset[i] <= LosslessThreshold(m, i, FALSE)

\* CheckAndSendPfc and CheckAndSendResume of the switch, as far as the MMU goes.
PauseIfNeeded(m, i) == [m EXCEPT !.paused[i] = @ \/ CheckShouldPause(m, i)]

\* The threshold is computed, and records the saturation, only if the comparison
\* with xon did not already decide.
ResumeIfPossible(m, i) ==
  LET computed == bufferModel = "reverie" /\ m.paused[i] /\ m.xoffUsed[i] = 0
                    /\ ~BelowXon(m, i)
      seen == IF computed THEN setCongestedIngress(m, i) ELSE m
  IN  [seen EXCEPT !.paused[i] = @ /\ ~CheckShouldResume(m, i)]

\* SendToDev on an admitted packet, and SwitchNotifyDequeue.
Admitted(m, p) ==
  PauseIfNeeded(UpdateEgressAdmission(UpdateIngressAdmission(AfterChecks(m, p), p), p),
                In(p))

Released(m, p) ==
  ResumeIfPossible(RemoveFromEgressAdmission(RemoveFromIngressAdmission(m, p), p),
                   In(p))
===============================================================================
