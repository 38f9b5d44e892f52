---------------------------- MODULE SwitchMmuProofs ----------------------------
(***************************************************************************)
(* What each operation of SwitchMmu does to the counters, stated once for  *)
(* the invariance proofs.  Which branch a threshold selects is left open:  *)
(* nothing that is proved depends on the value of a threshold.             *)
(***************************************************************************)
EXTENDS SwitchMmu, TLAPS

\* n differs from m at most in the record of which queues are congested.
SameCounters(n, m) ==
  /\ n.ingress_bytes = m.ingress_bytes
  /\ n.egress_bytes = m.egress_bytes
  /\ n.xoffUsed = m.xoffUsed
  /\ n.paused = m.paused
  /\ n.ingressLpf_bytes = m.ingressLpf_bytes
  /\ n.egressLpf_bytes = m.egressLpf_bytes
  /\ n.totalUsed = m.totalUsed
  /\ n.xoffTotalUsed = m.xoffTotalUsed
  /\ n.totalIngressReservedUsed = m.totalIngressReservedUsed
  /\ n.sharedPoolUsed = m.sharedPoolUsed
  /\ n.egressPoolUsed = m.egressPoolUsed

\* The guarded subtraction returns a natural number.
LEMMA MonusType ==
  ASSUME NEW a \in Nat, NEW b \in Nat
  PROVE  Monus(a, b) \in Nat
BY DEF Monus

\* A pool of which some share is granted is not used up.
LEMMA SharePositive ==
  ASSUME NEW pool \in Nat, NEW used \in Nat, NEW alpha \in Nat, NEW den \in Nat \ {0},
         ShareOf(pool, used, alpha, den) > 0
  PROVE  used < pool
<1> SUFFICES ASSUME used >= pool
             PROVE  FALSE
  OBVIOUS
<1>1. Monus(pool, used) = 0
  BY DEF Monus
<1>2. alpha * 0 = 0 /\ 0 \div den = 0
  OBVIOUS
<1> QED
  BY <1>1, <1>2 DEF ShareOf

\* A difference that does not wrap.
LEMMA ModSmall ==
  ASSUME NEW x \in Nat, NEW u \in Nat \ {0}, x < u
  PROVE  x % u = x
OBVIOUS

\* The headers of a packet index the arrays of the class.
LEMMA PacketFields ==
  ASSUME NEW p \in Packets
  PROVE  /\ In(p) \in PortQueue /\ Out(p) \in PortQueue
         /\ p.qIndex \in Queues
         /\ p.type \in Classes
         /\ p.size \in Nat \ {0}
BY MmuConfiguration DEF PacketType, In, Out, PortQueue

\* setCongested touches nothing but the record of congested queues.
LEMMA SetCongestedIngressCounters ==
  ASSUME NEW m \in MmuType, NEW i \in PortQueue
  PROVE  /\ setCongestedIngress(m, i) \in MmuType
         /\ SameCounters(setCongestedIngress(m, i), m)
<1> DEFINE level == Saturation(m.ingressLpf_bytes[i])
           congested == [m.congestedIngress EXCEPT ![i] = level]
           NofP == [m.NofPIngress EXCEPT ![i[2]] = @ + level - m.congestedIngress[i]]
<1>1. level \in Nat
  BY MmuConfiguration DEF MmuType, Saturation, Smaller
<1>2. congested \in [PortQueue -> Nat]
  BY <1>1 DEF MmuType
<1>3. NofP \in [Queues -> Int]
  <2>1. m.NofPIngress \in [Queues -> Int] /\ m.congestedIngress[i] \in Nat
    BY DEF MmuType
  <2>2. m.NofPIngress[i[2]] + level - m.congestedIngress[i] \in Int
    BY <1>1, <2>1 DEF PortQueue
  <2> HIDE DEF level
  <2> QED
    BY <2>1, <2>2
<1>4. setCongestedIngress(m, i) = [m EXCEPT !.NofPIngress = NofP, !.congestedIngress = congested]
  BY DEF setCongestedIngress
<1> HIDE DEF congested, NofP
<1>5. setCongestedIngress(m, i) \in MmuType
  BY <1>2, <1>3, <1>4 DEF MmuType
<1> QED
  BY <1>4, <1>5 DEF MmuType, SameCounters

\* The same of the egress queues (setCongested with inOut = "egress").
LEMMA SetCongestedEgressCounters ==
  ASSUME NEW m \in MmuType, NEW i \in PortQueue
  PROVE  /\ setCongestedEgress(m, i) \in MmuType
         /\ SameCounters(setCongestedEgress(m, i), m)
<1> DEFINE level == Saturation(m.egressLpf_bytes[i])
           congested == [m.congestedEgress EXCEPT ![i] = level]
           NofP == [m.NofPEgress EXCEPT ![i[2]] = @ + level - m.congestedEgress[i]]
<1>1. level \in Nat
  BY MmuConfiguration DEF MmuType, Saturation, Smaller
<1>2. congested \in [PortQueue -> Nat]
  BY <1>1 DEF MmuType
<1>3. NofP \in [Queues -> Int]
  <2>1. m.NofPEgress \in [Queues -> Int] /\ m.congestedEgress[i] \in Nat
    BY DEF MmuType
  <2>2. m.NofPEgress[i[2]] + level - m.congestedEgress[i] \in Int
    BY <1>1, <2>1 DEF PortQueue
  <2> HIDE DEF level
  <2> QED
    BY <2>1, <2>2
<1>4. setCongestedEgress(m, i) = [m EXCEPT !.NofPEgress = NofP, !.congestedEgress = congested]
  BY DEF setCongestedEgress
<1> HIDE DEF congested, NofP
<1>5. setCongestedEgress(m, i) \in MmuType
  BY <1>2, <1>3, <1>4 DEF MmuType
<1> QED
  BY <1>4, <1>5 DEF MmuType, SameCounters

\* The admission checks count nothing.
LEMMA AfterChecksCounters ==
  ASSUME NEW m \in MmuType, NEW p \in Packets
  PROVE  /\ AfterChecks(m, p) \in MmuType
         /\ SameCounters(AfterChecks(m, p), m)
<1>1. SameCounters(m, m)
  BY DEF SameCounters
<1> QED
  BY <1>1, PacketFields, SetCongestedIngressCounters, SetCongestedEgressCounters
     DEF AfterChecks

-------------------------------------------------------------------------------
(* Admission *)

\* n is m after CountIngress for p.
IngressCounted(n, m, p) ==
  /\ n.ingress_bytes = [m.ingress_bytes EXCEPT ![In(p)] = @ + p.size]
  /\ n.totalUsed = m.totalUsed + p.size
  /\ n.totalIngressReservedUsed
       = Monus(m.totalIngressReservedUsed, GetIngressReservedUsed(m, In(p)))
           + GetIngressReservedUsed(n, In(p))
  /\ n.sharedPoolUsed = IF p.type = LOSSLESS THEN m.sharedPoolUsed + p.size
                                             ELSE m.sharedPoolUsed
  /\ n.egress_bytes = m.egress_bytes
  /\ n.xoffUsed = m.xoffUsed
  /\ n.xoffTotalUsed = m.xoffTotalUsed
  /\ n.paused = m.paused
  /\ n.ingressLpf_bytes = m.ingressLpf_bytes
  /\ n.egressLpf_bytes = m.egressLpf_bytes
  /\ n.egressPoolUsed = m.egressPoolUsed

\* CountIngress keeps the counters typed and changes only those of the arriving
\* packet's ingress queue and the totals, by the size of the packet.
LEMMA CountIngressCounters ==
  ASSUME NEW m \in MmuType, NEW p \in Packets
  PROVE  /\ CountIngress(m, p) \in MmuType
         /\ IngressCounted(CountIngress(m, p), m, p)
<1> DEFINE i == In(p)
           old == GetIngressReservedUsed(m, i)
           new == Smaller(m.ingress_bytes[i] + p.size, reserveIngress[i])
           bytes == [m.ingress_bytes EXCEPT ![i] = @ + p.size]
           total == m.totalUsed + p.size
           reserved == Monus(m.totalIngressReservedUsed, old) + new
           shared == IF p.type = LOSSLESS THEN m.sharedPoolUsed + p.size
                                          ELSE m.sharedPoolUsed
           counted == [m EXCEPT !.ingress_bytes = bytes, !.totalUsed = total,
                                !.totalIngressReservedUsed = reserved,
                                !.sharedPoolUsed = shared]
<1>1. i \in PortQueue /\ p.size \in Nat
  BY PacketFields
<1>2. reserveIngress[i] \in Nat /\ m.ingress_bytes[i] \in Nat
  BY <1>1, MmuConfiguration DEF MmuType
<1>3. bytes \in [PortQueue -> Nat]
  <2>1. m.ingress_bytes \in [PortQueue -> Nat]
    BY DEF MmuType
  <2>2. m.ingress_bytes[i] + p.size \in Nat
    BY <1>1, <1>2
  <2> HIDE DEF i
  <2> QED
    BY <2>1, <2>2
<1>4. total \in Nat /\ shared \in Nat
  BY <1>1 DEF MmuType
<1>5. reserved \in Nat
  <2>1. old \in Nat /\ new \in Nat
    BY <1>1, <1>2 DEF GetIngressReservedUsed, Smaller
  <2>2. m.totalIngressReservedUsed \in Nat
    BY DEF MmuType
  <2>3. Monus(m.totalIngressReservedUsed, old) \in Nat
    BY <2>1, <2>2, MonusType
  <2> HIDE DEF old, new
  <2> QED
    BY <2>1, <2>3
<1>6. bytes[i] = m.ingress_bytes[i] + p.size
  BY <1>1 DEF MmuType
<1>7. new = Smaller(bytes[i], reserveIngress[i])
  BY <1>6
<1> HIDE DEF bytes, total, shared, reserved
<1>8. counted \in MmuType
  BY <1>3, <1>4, <1>5 DEF MmuType
<1>9. IngressCounted(counted, m, p)
  <2>1. /\ counted.ingress_bytes = bytes
        /\ counted.totalUsed = total
        /\ counted.totalIngressReservedUsed = reserved
        /\ counted.sharedPoolUsed = shared
    BY DEF MmuType
  <2>2. GetIngressReservedUsed(counted, i) = new
    BY <1>7, <2>1 DEF GetIngressReservedUsed
  <2>3. counted.totalIngressReservedUsed
          = Monus(m.totalIngressReservedUsed, old) + GetIngressReservedUsed(counted, i)
    BY <2>1, <2>2 DEF reserved
  <2>4. /\ counted.egress_bytes = m.egress_bytes
        /\ counted.xoffUsed = m.xoffUsed
        /\ counted.xoffTotalUsed = m.xoffTotalUsed
        /\ counted.paused = m.paused
        /\ counted.ingressLpf_bytes = m.ingressLpf_bytes
        /\ counted.egressLpf_bytes = m.egressLpf_bytes
        /\ counted.egressPoolUsed = m.egressPoolUsed
    BY DEF MmuType
  <2> QED
    BY <2>1, <2>3, <2>4 DEF IngressCounted, bytes, total, shared
<1>10. CountIngress(m, p) = IF bufferModel = "reverie" /\ p.type = LOSSLESS
                            THEN setCongestedIngress(counted, i) ELSE counted
  BY DEF CountIngress, bytes, total, reserved, shared
<1>11. CASE bufferModel = "reverie" /\ p.type = LOSSLESS
  <2> DEFINE n == setCongestedIngress(counted, i)
  <2>1. n \in MmuType /\ SameCounters(n, counted)
    BY <1>1, <1>8, SetCongestedIngressCounters
  <2>2. GetIngressReservedUsed(n, i) = GetIngressReservedUsed(counted, i)
    BY <2>1 DEF SameCounters, GetIngressReservedUsed
  <2> HIDE DEF n, counted
  <2>3. IngressCounted(n, m, p)
    BY <1>9, <2>1, <2>2 DEF SameCounters, IngressCounted
  <2> QED
    BY <1>10, <1>11, <2>1, <2>3 DEF n
<1>12. CASE ~(bufferModel = "reverie" /\ p.type = LOSSLESS)
  BY <1>8, <1>9, <1>10, <1>12
<1> QED
  BY <1>11, <1>12

\* The part of an admitted packet that is charged to the headroom.
HeadroomCharge(m, p) ==
  IF EntersHeadroom(CountIngress(m, p), p) THEN p.size ELSE 0

\* An arriving packet is charged whole or not at all, only if it is lossless,
\* and always if it is and its queue is in the headroom already.
LEMMA HeadroomChargeType ==
  ASSUME NEW m \in MmuType, NEW p \in Packets
  PROVE  /\ HeadroomCharge(m, p) \in {0, p.size}
         /\ HeadroomCharge(m, p) \in Nat
         /\ HeadroomCharge(m, p) # 0 => p.type = LOSSLESS
         /\ p.type = LOSSLESS /\ m.xoffUsed[In(p)] > 0
              => HeadroomCharge(m, p) = p.size
<1>1. p.size \in Nat
  BY PacketFields
<1>2. CountIngress(m, p).xoffUsed = m.xoffUsed
  BY CountIngressCounters DEF IngressCounted
<1> QED
  BY <1>1, <1>2 DEF HeadroomCharge, EntersHeadroom

\* n is m after UpdateIngressAdmission for p, d bytes of it in the headroom.
IngressUpdated(n, m, p, d) ==
  /\ n.ingress_bytes = [m.ingress_bytes EXCEPT ![In(p)] = @ + p.size]
  /\ n.totalUsed = m.totalUsed + p.size
  /\ n.totalIngressReservedUsed
       = Monus(m.totalIngressReservedUsed, GetIngressReservedUsed(m, In(p)))
           + GetIngressReservedUsed(n, In(p))
  /\ n.sharedPoolUsed = IF p.type = LOSSLESS THEN m.sharedPoolUsed + p.size - d
                                             ELSE m.sharedPoolUsed
  /\ n.egress_bytes = m.egress_bytes
  /\ n.xoffUsed = [m.xoffUsed EXCEPT ![In(p)] = @ + d]
  /\ n.xoffTotalUsed = m.xoffTotalUsed + d
  /\ n.paused = m.paused
  /\ n.ingressLpf_bytes = m.ingressLpf_bytes
  /\ n.egressLpf_bytes = m.egressLpf_bytes
  /\ n.egressPoolUsed = m.egressPoolUsed

\* What UpdateIngressAdmission leaves in every counter.  The unguarded
\* subtraction from sharedPoolUsed does not wrap: CountIngress has just added
\* the same bytes to it.
LEMMA UpdateIngressAdmissionCounters ==
  ASSUME NEW m \in MmuType, NEW p \in Packets
  PROVE  /\ UpdateIngressAdmission(m, p) \in MmuType
         /\ IngressUpdated(UpdateIngressAdmission(m, p), m, p, HeadroomCharge(m, p))
<1> DEFINE i == In(p)
           c == CountIngress(m, p)
           d == HeadroomCharge(m, p)
           used == [c.xoffUsed EXCEPT ![i] = @ + p.size]
           n == [c EXCEPT !.xoffUsed = used,
                          !.xoffTotalUsed = c.xoffTotalUsed + p.size,
                          !.sharedPoolUsed = c.sharedPoolUsed - p.size]
<1>1. c \in MmuType /\ IngressCounted(c, m, p)
  BY CountIngressCounters
<1>2. i \in PortQueue /\ p.size \in Nat
  BY PacketFields
<1>3. CASE EntersHeadroom(c, p)
  <2>1. p.type = LOSSLESS /\ d = p.size
    BY <1>3 DEF EntersHeadroom, HeadroomCharge
  <2>2. used \in [PortQueue -> Nat]
    <3>1. c.xoffUsed \in [PortQueue -> Nat]
      BY <1>1 DEF MmuType
    <3>2. c.xoffUsed[i] + p.size \in Nat
      BY <1>2, <3>1
    <3> HIDE DEF i, c
    <3> QED
      BY <3>1, <3>2
  <2>3. c.sharedPoolUsed = m.sharedPoolUsed + p.size /\ m.sharedPoolUsed \in Nat
    BY <1>1, <2>1 DEF IngressCounted, MmuType
  <2>4. c.sharedPoolUsed - p.size \in Nat /\ c.xoffTotalUsed + p.size \in Nat
    BY <1>1, <1>2, <2>3 DEF MmuType
  <2>5. UpdateIngressAdmission(m, p) = n
    BY <1>3 DEF UpdateIngressAdmission
  <2> HIDE DEF c, used, d
  <2>6. n \in MmuType
    BY <1>1, <2>2, <2>4 DEF MmuType
  <2>7. /\ n.xoffUsed = used
        /\ n.xoffTotalUsed = c.xoffTotalUsed + p.size
        /\ n.sharedPoolUsed = c.sharedPoolUsed - p.size
        /\ n.ingress_bytes = c.ingress_bytes
        /\ n.totalUsed = c.totalUsed
        /\ n.totalIngressReservedUsed = c.totalIngressReservedUsed
        /\ n.egress_bytes = c.egress_bytes
        /\ n.paused = c.paused
        /\ n.ingressLpf_bytes = c.ingressLpf_bytes
        /\ n.egressLpf_bytes = c.egressLpf_bytes
        /\ n.egressPoolUsed = c.egressPoolUsed
    BY <1>1 DEF MmuType
  <2>8. GetIngressReservedUsed(n, i) = GetIngressReservedUsed(c, i)
    BY <2>7 DEF GetIngressReservedUsed
  <2>9. used = [m.xoffUsed EXCEPT ![i] = @ + d]
    BY <1>1, <2>1 DEF IngressCounted, used
  <2> HIDE DEF n
  <2>10. n.sharedPoolUsed = m.sharedPoolUsed + p.size - d
    <3>1. n.sharedPoolUsed = c.sharedPoolUsed - p.size
      BY <2>7
    <3> QED
      BY <1>2, <2>1, <2>3, <3>1
  <2>11. IngressUpdated(n, m, p, d)
    BY <1>1, <1>2, <2>1, <2>7, <2>8, <2>9, <2>10 DEF IngressCounted, IngressUpdated
  <2> QED
    BY <2>5, <2>6, <2>11 DEF d
<1>4. CASE ~EntersHeadroom(c, p)
  <2>1. UpdateIngressAdmission(m, p) = c /\ d = 0
    BY <1>4 DEF UpdateIngressAdmission, HeadroomCharge
  <2>2. m.xoffUsed \in [PortQueue -> Nat] /\ m.xoffTotalUsed \in Nat /\ m.sharedPoolUsed \in Nat
    BY DEF MmuType
  <2>3. [m.xoffUsed EXCEPT ![i] = @ + 0] = m.xoffUsed
    BY <1>2, <2>2
  <2>4. IngressUpdated(c, m, p, 0)
    <3> HIDE DEF c
    <3> QED
      BY <1>1, <1>2, <2>2, <2>3 DEF IngressCounted, IngressUpdated
  <2> QED
    BY <1>1, <2>1, <2>4
<1> QED
  BY <1>3, <1>4

\* n is m after Admitted for p, d bytes of it in the headroom.
AdmittedCounters(n, m, p, d) ==
  /\ n.ingress_bytes = [m.ingress_bytes EXCEPT ![In(p)] = @ + p.size]
  /\ n.egress_bytes = [m.egress_bytes EXCEPT ![Out(p)] = @ + p.size]
  /\ n.egressPoolUsed = [m.egressPoolUsed EXCEPT ![p.type] = @ + p.size]
  /\ n.totalUsed = m.totalUsed + p.size
  /\ n.totalIngressReservedUsed
       = Monus(m.totalIngressReservedUsed, GetIngressReservedUsed(m, In(p)))
           + GetIngressReservedUsed(n, In(p))
  /\ n.sharedPoolUsed = m.sharedPoolUsed + p.size - d
  /\ n.xoffUsed = [m.xoffUsed EXCEPT ![In(p)] = @ + d]
  /\ n.xoffTotalUsed = m.xoffTotalUsed + d
  /\ n.paused = [m.paused EXCEPT ![In(p)] = @ \/ n.xoffUsed[In(p)] > 0]
  /\ n.ingressLpf_bytes = m.ingressLpf_bytes
  /\ n.egressLpf_bytes = m.egressLpf_bytes

\* What admitting a packet does to the counters: the egress side counts it too,
\* and the queue is paused if it is in its headroom.
LEMMA AdmittedStep ==
  ASSUME NEW m \in MmuType, NEW p \in Packets
  PROVE  LET d == HeadroomCharge(AfterChecks(m, p), p)
         IN  /\ Admitted(m, p) \in MmuType
             /\ AdmittedCounters(Admitted(m, p), m, p, d)
             /\ d \in {0, p.size}
             /\ d # 0 => p.type = LOSSLESS
             /\ p.type = LOSSLESS /\ m.xoffUsed[In(p)] > 0 => d = p.size
<1> DEFINE i == In(p)
           o == Out(p)
           a == AfterChecks(m, p)
           d == HeadroomCharge(a, p)
           u == UpdateIngressAdmission(a, p)
           egress == [u.egress_bytes EXCEPT ![o] = @ + p.size]
           pool == [u.egressPoolUsed EXCEPT ![p.type] = @ + p.size]
           shared == IF p.type = LOSSY THEN u.sharedPoolUsed + p.size
                                       ELSE u.sharedPoolUsed
           e == [u EXCEPT !.egress_bytes = egress, !.egressPoolUsed = pool,
                          !.sharedPoolUsed = shared]
           paused == [e.paused EXCEPT ![i] = @ \/ CheckShouldPause(e, i)]
           n == [e EXCEPT !.paused = paused]
<1>1. a \in MmuType /\ SameCounters(a, m)
  BY AfterChecksCounters
<1>2. /\ i \in PortQueue /\ o \in PortQueue /\ p.type \in Classes
      /\ p.size \in Nat
  BY PacketFields
<1>3. /\ d \in {0, p.size} /\ d \in Nat
      /\ d # 0 => p.type = LOSSLESS
      /\ p.type = LOSSLESS /\ m.xoffUsed[i] > 0 => d = p.size
  BY <1>1, HeadroomChargeType DEF SameCounters
<1>4. u \in MmuType /\ IngressUpdated(u, a, p, d)
  BY <1>1, UpdateIngressAdmissionCounters
<1> HIDE DEF a, d, u
<1>5. IngressUpdated(u, m, p, d)
  <2>1. GetIngressReservedUsed(a, i) = GetIngressReservedUsed(m, i)
    BY <1>1 DEF SameCounters, GetIngressReservedUsed
  <2> QED
    BY <1>1, <1>4, <2>1 DEF IngressUpdated, SameCounters
<1>6. egress \in [PortQueue -> Nat]
  <2>1. u.egress_bytes \in [PortQueue -> Nat]
    BY <1>4 DEF MmuType
  <2>2. u.egress_bytes[o] + p.size \in Nat
    BY <1>2, <2>1
  <2> HIDE DEF o
  <2> QED
    BY <2>1, <2>2
<1>7. pool \in [Classes -> Nat]
  <2>1. u.egressPoolUsed \in [Classes -> Nat]
    BY <1>4 DEF MmuType
  <2>2. u.egressPoolUsed[p.type] + p.size \in Nat
    BY <1>2, <2>1
  <2> QED
    BY <2>1, <2>2
<1>8. shared \in Nat
  BY <1>2, <1>4 DEF MmuType
<1>9. UpdateEgressAdmission(u, p) = e
  BY DEF UpdateEgressAdmission
<1> HIDE DEF egress, pool, shared
<1>10. e \in MmuType
  BY <1>4, <1>6, <1>7, <1>8 DEF MmuType
<1>11. /\ e.egress_bytes = egress
       /\ e.egressPoolUsed = pool
       /\ e.sharedPoolUsed = shared
       /\ e.ingress_bytes = u.ingress_bytes
       /\ e.totalUsed = u.totalUsed
       /\ e.totalIngressReservedUsed = u.totalIngressReservedUsed
       /\ e.xoffUsed = u.xoffUsed
       /\ e.xoffTotalUsed = u.xoffTotalUsed
       /\ e.paused = u.paused
       /\ e.ingressLpf_bytes = u.ingressLpf_bytes
       /\ e.egressLpf_bytes = u.egressLpf_bytes
  BY <1>4 DEF MmuType
<1> HIDE DEF e
<1>12. paused \in [PortQueue -> BOOLEAN]
  BY <1>2, <1>10 DEF MmuType
<1>13. paused = [e.paused EXCEPT ![i] = @ \/ e.xoffUsed[i] > 0]
  BY <1>2, <1>10 DEF CheckShouldPause, MmuType
<1>14. PauseIfNeeded(e, i) = n
  BY DEF PauseIfNeeded
<1> HIDE DEF paused
<1>15. n \in MmuType
  BY <1>10, <1>12 DEF MmuType
<1>16. /\ n.paused = paused
       /\ n.egress_bytes = e.egress_bytes
       /\ n.egressPoolUsed = e.egressPoolUsed
       /\ n.sharedPoolUsed = e.sharedPoolUsed
       /\ n.ingress_bytes = e.ingress_bytes
       /\ n.totalUsed = e.totalUsed
       /\ n.totalIngressReservedUsed = e.totalIngressReservedUsed
       /\ n.xoffUsed = e.xoffUsed
       /\ n.xoffTotalUsed = e.xoffTotalUsed
       /\ n.ingressLpf_bytes = e.ingressLpf_bytes
       /\ n.egressLpf_bytes = e.egressLpf_bytes
  BY <1>10 DEF MmuType
<1> HIDE DEF n
<1>17. Admitted(m, p) = n
  BY <1>9, <1>14 DEF Admitted, a, u
<1>18. AdmittedCounters(n, m, p, d)
  <2>1. GetIngressReservedUsed(n, i) = GetIngressReservedUsed(u, i)
    BY <1>11, <1>16 DEF GetIngressReservedUsed
  <2>2. n.sharedPoolUsed = m.sharedPoolUsed + p.size - d
    <3>1. n.sharedPoolUsed = shared
      BY <1>11, <1>16
    <3>2. CASE p.type = LOSSLESS
      <4>1. shared = u.sharedPoolUsed
        BY <3>2 DEF shared, LOSSY, LOSSLESS
      <4>2. u.sharedPoolUsed = m.sharedPoolUsed + p.size - d
        BY <1>5, <3>2 DEF IngressUpdated
      <4> QED
        BY <3>1, <4>1, <4>2
    <3>3. CASE p.type = LOSSY
      <4>1. shared = u.sharedPoolUsed + p.size
        BY <3>3 DEF shared
      <4>2. u.sharedPoolUsed = m.sharedPoolUsed /\ d = 0
        BY <1>3, <1>5, <3>3 DEF IngressUpdated, LOSSY, LOSSLESS
      <4>3. m.sharedPoolUsed \in Nat
        BY DEF MmuType
      <4> QED
        BY <1>2, <3>1, <4>1, <4>2, <4>3
    <3> QED
      BY <1>2, <3>2, <3>3 DEF Classes
  <2>3. /\ n.egress_bytes = [m.egress_bytes EXCEPT ![Out(p)] = @ + p.size]
        /\ n.egressPoolUsed = [m.egressPoolUsed EXCEPT ![p.type] = @ + p.size]
    BY <1>5, <1>11, <1>16 DEF IngressUpdated, egress, pool
  <2>4. n.paused = [m.paused EXCEPT ![In(p)] = @ \/ n.xoffUsed[In(p)] > 0]
    BY <1>5, <1>11, <1>13, <1>16 DEF IngressUpdated
  <2> QED
    BY <1>5, <1>11, <1>16, <2>1, <2>2, <2>3, <2>4 DEF IngressUpdated, AdmittedCounters
<1> QED
  BY <1>3, <1>15, <1>17, <1>18 DEF a, d

-------------------------------------------------------------------------------
(* Departure *)

\* A filter yields a natural number that does not exceed what it filters.
LEMMA LpfType ==
  ASSUME NEW lpf \in Nat, NEW bytes \in Nat
  PROVE  Lpf(lpf, bytes) \in Nat /\ Lpf(lpf, bytes) <= bytes
<1> DEFINE mix == Reveriegamma * lpf + (GammaUnit - Reveriegamma) * bytes
<1>1. /\ GammaUnit \in Nat \ {0}
      /\ Reveriegamma \in Nat /\ Reveriegamma <= GammaUnit
  BY MmuConfiguration
<1>2. Reveriegamma * lpf \in Nat /\ (GammaUnit - Reveriegamma) * bytes \in Nat
  <2>1. GammaUnit - Reveriegamma \in Nat
    BY <1>1
  <2>2. \A a, b \in Nat : a * b \in Nat
    OBVIOUS
  <2> QED
    BY <1>1, <2>1, <2>2
<1>3. mix \in Nat
  BY <1>2
<1> HIDE DEF mix
<1>4. mix \div GammaUnit \in Nat
  BY <1>1, <1>3
<1>5. Lpf(lpf, bytes) = Smaller(mix \div GammaUnit, bytes)
  BY DEF Lpf, mix
<1> QED
  BY <1>4, <1>5 DEF Smaller

\* The bytes of a departing packet that its queue's headroom gets back.
HeadroomReturned(m, p) ==
  IF p.type = LOSSLESS THEN Smaller(m.xoffUsed[In(p)], p.size) ELSE 0

\* A departing packet gives back the smaller of its size and its queue's
\* headroom, and nothing if it is lossy.
LEMMA HeadroomReturnedType ==
  ASSUME NEW m \in MmuType, NEW p \in Packets
  PROVE  LET h == HeadroomReturned(m, p)
         IN  /\ h \in Nat /\ h <= p.size /\ h <= m.xoffUsed[In(p)]
             /\ h # 0 => p.type = LOSSLESS
             /\ p.type = LOSSLESS => h = p.size \/ h = m.xoffUsed[In(p)]
BY PacketFields DEF HeadroomReturned, Smaller, MmuType

\* Packet p is counted in m: no guarded subtraction saturates when it leaves.
Counted(m, p) ==
  /\ p.size <= m.ingress_bytes[In(p)]
  /\ p.size <= m.egress_bytes[Out(p)]
  /\ p.size <= m.totalUsed
  /\ p.size <= m.egressPoolUsed[p.type]
  /\ m.xoffUsed[In(p)] <= m.xoffTotalUsed
  /\ p.size <= m.sharedPoolUsed + HeadroomReturned(m, p)

\* n is m after RemoveFromIngressAdmission for p, h bytes of it from the headroom.
IngressRemoved(n, m, p, h) ==
  /\ n.ingress_bytes = [m.ingress_bytes EXCEPT ![In(p)] = @ - p.size]
  /\ n.totalUsed = m.totalUsed - p.size
  /\ n.totalIngressReservedUsed
       = Monus(m.totalIngressReservedUsed, GetIngressReservedUsed(m, In(p)))
           + GetIngressReservedUsed(n, In(p))
  /\ n.sharedPoolUsed = IF p.type = LOSSLESS THEN m.sharedPoolUsed + h - p.size
                                             ELSE m.sharedPoolUsed
  /\ n.xoffUsed = [m.xoffUsed EXCEPT ![In(p)] = @ - h]
  /\ n.xoffTotalUsed = m.xoffTotalUsed - h
  /\ n.ingressLpf_bytes
       = IF p.type = LOSSLESS
         THEN [m.ingressLpf_bytes EXCEPT ![In(p)] = Lpf(@, n.ingress_bytes[In(p)])]
         ELSE m.ingressLpf_bytes
  /\ n.egress_bytes = m.egress_bytes
  /\ n.paused = m.paused
  /\ n.egressLpf_bytes = m.egressLpf_bytes
  /\ n.egressPoolUsed = m.egressPoolUsed

\* What RemoveFromIngressAdmission leaves in every counter, for a packet that is
\* counted in its queue.
LEMMA RemoveFromIngressCounters ==
  ASSUME NEW m \in MmuType, NEW p \in Packets, Counted(m, p)
  PROVE  /\ RemoveFromIngressAdmission(m, p) \in MmuType
         /\ IngressRemoved(RemoveFromIngressAdmission(m, p), m, p, HeadroomReturned(m, p))
<1> DEFINE i == In(p)
           h == HeadroomReturned(m, p)
           left == m.ingress_bytes[i] - p.size
           bytes == [m.ingress_bytes EXCEPT ![i] = left]
           total == m.totalUsed - p.size
           reserved == Monus(m.totalIngressReservedUsed, GetIngressReservedUsed(m, i))
                         + Smaller(left, reserveIngress[i])
           lpf == IF p.type = LOSSLESS
                  THEN [m.ingressLpf_bytes EXCEPT ![i] = Lpf(@, left)]
                  ELSE m.ingressLpf_bytes
           c == [m EXCEPT !.ingress_bytes = bytes, !.totalUsed = total,
                          !.totalIngressReservedUsed = reserved,
                          !.ingressLpf_bytes = lpf]
<1>1. i \in PortQueue /\ p.size \in Nat \ {0} /\ p.type \in Classes
  BY PacketFields
<1>2. /\ m.ingress_bytes \in [PortQueue -> Nat]
      /\ m.ingressLpf_bytes \in [PortQueue -> Nat]
      /\ m.xoffUsed \in [PortQueue -> Nat]
      /\ m.totalUsed \in Nat /\ m.xoffTotalUsed \in Nat
      /\ m.sharedPoolUsed \in Nat /\ m.totalIngressReservedUsed \in Nat
  BY DEF MmuType
<1>3. left \in Nat
  BY <1>1, <1>2 DEF Counted
<1>4. Monus(m.ingress_bytes[i], p.size) = left /\ Monus(m.totalUsed, p.size) = total
  BY <1>1, <1>2 DEF Counted, Monus
<1>5. UncountIngress(m, p) = c
  <2>1. [m.ingressLpf_bytes EXCEPT ![i] = IF p.type = LOSSLESS THEN Lpf(@, left) ELSE @]
          = lpf
    BY <1>1, <1>2
  <2> HIDE DEF lpf
  <2> QED
    BY <1>1, <1>2, <1>4, <2>1 DEF UncountIngress
<1>6. bytes \in [PortQueue -> Nat]
  <2> HIDE DEF left
  <2> QED
    BY <1>1, <1>2, <1>3
<1>7. total \in Nat
  BY <1>1, <1>2 DEF Counted
<1>8. reserved \in Nat
  <2>1. reserveIngress[i] \in Nat
    BY <1>1, MmuConfiguration
  <2>2. GetIngressReservedUsed(m, i) \in Nat
    BY <1>1, <1>2, <2>1 DEF GetIngressReservedUsed, Smaller
  <2>3. Monus(m.totalIngressReservedUsed, GetIngressReservedUsed(m, i)) \in Nat
    BY <1>2, <2>2, MonusType
  <2>4. Smaller(left, reserveIngress[i]) \in Nat
    BY <1>3, <2>1 DEF Smaller
  <2> QED
    BY <2>3, <2>4
<1>9. lpf \in [PortQueue -> Nat]
  <2>1. Lpf(m.ingressLpf_bytes[i], left) \in Nat
    BY <1>1, <1>2, <1>3, LpfType
  <2> HIDE DEF left
  <2> QED
    BY <1>1, <1>2, <2>1
<1>10. bytes[i] = left
  BY <1>1, <1>2
<1> HIDE DEF bytes, total, reserved, lpf
<1>11. c \in MmuType
  BY <1>6, <1>7, <1>8, <1>9 DEF MmuType
<1>12. /\ c.ingress_bytes = bytes
       /\ c.totalUsed = total
       /\ c.totalIngressReservedUsed = reserved
       /\ c.ingressLpf_bytes = lpf
       /\ c.sharedPoolUsed = m.sharedPoolUsed
       /\ c.xoffUsed = m.xoffUsed
       /\ c.xoffTotalUsed = m.xoffTotalUsed
       /\ c.egress_bytes = m.egress_bytes
       /\ c.paused = m.paused
       /\ c.egressLpf_bytes = m.egressLpf_bytes
       /\ c.egressPoolUsed = m.egressPoolUsed
  BY DEF MmuType
<1> HIDE DEF c
<1>13. h \in Nat /\ h <= p.size /\ h <= m.xoffUsed[i]
  BY <1>1, HeadroomReturnedType
<1>14. ASSUME NEW n, n.ingress_bytes = bytes
       PROVE  /\ GetIngressReservedUsed(n, i) = Smaller(left, reserveIngress[i])
              /\ bytes = [m.ingress_bytes EXCEPT ![i] = @ - p.size]
              /\ reserved = Monus(m.totalIngressReservedUsed, GetIngressReservedUsed(m, i))
                              + GetIngressReservedUsed(n, i)
              /\ lpf = IF p.type = LOSSLESS
                       THEN [m.ingressLpf_bytes EXCEPT ![i] = Lpf(@, n.ingress_bytes[i])]
                       ELSE m.ingressLpf_bytes
  <2>1. n.ingress_bytes[i] = left
    BY <1>10, <1>14
  <2>2. GetIngressReservedUsed(n, i) = Smaller(left, reserveIngress[i])
    BY <2>1 DEF GetIngressReservedUsed
  <2> QED
    BY <1>1, <1>2, <2>1, <2>2 DEF bytes, reserved, lpf
<1>15. CASE p.type = LOSSLESS
  <2> DEFINE used == [c.xoffUsed EXCEPT ![i] = @ - h]
             n == [c EXCEPT !.xoffUsed = used,
                            !.xoffTotalUsed = m.xoffTotalUsed - h,
                            !.sharedPoolUsed = m.sharedPoolUsed + h - p.size]
  <2>1. h = Smaller(m.xoffUsed[i], p.size)
    BY <1>15 DEF HeadroomReturned
  <2>2. m.xoffUsed[i] \in Nat /\ m.xoffUsed[i] <= m.xoffTotalUsed
    BY <1>1, <1>2 DEF Counted
  <2>3. Monus(m.xoffUsed[i], p.size) = m.xoffUsed[i] - h
    BY <1>1, <2>1, <2>2 DEF Monus, Smaller
  <2>4. Monus(m.xoffTotalUsed, m.xoffUsed[i]) + (m.xoffUsed[i] - h) = m.xoffTotalUsed - h
    BY <1>2, <1>13, <2>2 DEF Monus
  <2>5. p.size <= m.sharedPoolUsed + h
    BY DEF Counted
  <2>6. (IF m.xoffUsed[i] = 0 THEN Monus(m.sharedPoolUsed, p.size)
         ELSE m.sharedPoolUsed - Monus(p.size, m.xoffUsed[i]))
          = m.sharedPoolUsed + h - p.size
    <3> HIDE DEF h
    <3> QED
      BY <1>1, <1>2, <2>1, <2>2, <2>5 DEF Monus, Smaller
  <2>7. LeaveHeadroom(c, p) = n
    <3> HIDE DEF h
    <3> QED
      BY <1>12, <2>3, <2>4, <2>6 DEF LeaveHeadroom
  <2>8. RemoveFromIngressAdmission(m, p) = n
    BY <1>5, <1>15, <2>7 DEF RemoveFromIngressAdmission
  <2> HIDE DEF h
  <2>9. used \in [PortQueue -> Nat]
    <3>1. m.xoffUsed[i] - h \in Nat
      BY <1>13, <2>2
    <3> QED
      BY <1>1, <1>2, <1>12, <3>1
  <2>10. m.xoffTotalUsed - h \in Nat /\ m.sharedPoolUsed + h - p.size \in Nat
    BY <1>1, <1>2, <1>13, <2>2, <2>5
  <2> HIDE DEF used
  <2>11. n \in MmuType
    BY <1>11, <2>9, <2>10 DEF MmuType
  <2>12. /\ n.xoffUsed = used
         /\ n.xoffTotalUsed = m.xoffTotalUsed - h
         /\ n.sharedPoolUsed = m.sharedPoolUsed + h - p.size
         /\ n.ingress_bytes = c.ingress_bytes
         /\ n.totalUsed = c.totalUsed
         /\ n.totalIngressReservedUsed = c.totalIngressReservedUsed
         /\ n.ingressLpf_bytes = c.ingressLpf_bytes
         /\ n.egress_bytes = c.egress_bytes
         /\ n.paused = c.paused
         /\ n.egressLpf_bytes = c.egressLpf_bytes
         /\ n.egressPoolUsed = c.egressPoolUsed
    BY <1>11 DEF MmuType
  <2> HIDE DEF n
  <2>13. used = [m.xoffUsed EXCEPT ![i] = @ - h]
    BY <1>12 DEF used
  <2>14. IngressRemoved(n, m, p, h)
    BY <1>12, <1>14, <1>15, <2>12, <2>13 DEF IngressRemoved, total
  <2> QED
    BY <2>8, <2>11, <2>14 DEF h
<1>16. CASE p.type # LOSSLESS
  <2>1. RemoveFromIngressAdmission(m, p) = c
    BY <1>5, <1>16 DEF RemoveFromIngressAdmission
  <2>2. h = 0
    BY <1>16 DEF HeadroomReturned
  <2>3. [m.xoffUsed EXCEPT ![i] = @ - 0] = m.xoffUsed
    BY <1>1, <1>2
  <2>4. IngressRemoved(c, m, p, 0)
    BY <1>2, <1>12, <1>14, <1>16, <2>3 DEF IngressRemoved, total
  <2> QED
    BY <1>11, <2>1, <2>2, <2>4
<1> QED
  BY <1>15, <1>16

\* n is m after RemoveFromEgressAdmission for p.
EgressRemoved(n, m, p) ==
  /\ n.egress_bytes = [m.egress_bytes EXCEPT ![Out(p)] = @ - p.size]
  /\ n.egressPoolUsed = [m.egressPoolUsed EXCEPT ![p.type] = @ - p.size]
  /\ n.sharedPoolUsed = IF p.type = LOSSLESS THEN m.sharedPoolUsed
                                             ELSE m.sharedPoolUsed - p.size
  /\ n.egressLpf_bytes
       = IF p.type = LOSSLESS THEN m.egressLpf_bytes
         ELSE [m.egressLpf_bytes EXCEPT ![Out(p)] = Lpf(@, n.egress_bytes[Out(p)])]
  /\ n.ingress_bytes = m.ingress_bytes
  /\ n.totalUsed = m.totalUsed
  /\ n.totalIngressReservedUsed = m.totalIngressReservedUsed
  /\ n.xoffUsed = m.xoffUsed
  /\ n.xoffTotalUsed = m.xoffTotalUsed
  /\ n.ingressLpf_bytes = m.ingressLpf_bytes
  /\ n.paused = m.paused

\* What RemoveFromEgressAdmission leaves in every counter, for a packet that is
\* counted in its queue.
LEMMA RemoveFromEgressCounters ==
  ASSUME NEW m \in MmuType, NEW p \in Packets,
         p.size <= m.egress_bytes[Out(p)],
         p.size <= m.egressPoolUsed[p.type],
         p.type # LOSSLESS => p.size <= m.sharedPoolUsed
  PROVE  /\ RemoveFromEgressAdmission(m, p) \in MmuType
         /\ EgressRemoved(RemoveFromEgressAdmission(m, p), m, p)
<1> DEFINE o == Out(p)
           left == m.egress_bytes[o] - p.size
           bytes == [m.egress_bytes EXCEPT ![o] = left]
           pool == [m.egressPoolUsed EXCEPT ![p.type] = @ - p.size]
           lpf == [m.egressLpf_bytes EXCEPT ![o] = Lpf(@, left)]
           c == [m EXCEPT !.egress_bytes = bytes, !.egressPoolUsed = pool]
           n == [c EXCEPT !.sharedPoolUsed = m.sharedPoolUsed - p.size,
                          !.egressLpf_bytes = lpf]
<1>1. o \in PortQueue /\ p.size \in Nat \ {0} /\ p.type \in Classes
  BY PacketFields
<1>2. /\ m.egress_bytes \in [PortQueue -> Nat]
      /\ m.egressLpf_bytes \in [PortQueue -> Nat]
      /\ m.egressPoolUsed \in [Classes -> Nat]
      /\ m.sharedPoolUsed \in Nat
  BY DEF MmuType
<1>3. left \in Nat
  BY <1>1, <1>2
<1>4. /\ Monus(m.egress_bytes[o], p.size) = left
      /\ Monus(m.egressPoolUsed[p.type], p.size) = m.egressPoolUsed[p.type] - p.size
  BY <1>1, <1>2 DEF Monus
<1>5. bytes \in [PortQueue -> Nat] /\ bytes[o] = left
  <2> HIDE DEF left
  <2> QED
    BY <1>1, <1>2, <1>3
<1>6. pool \in [Classes -> Nat]
  <2>1. m.egressPoolUsed[p.type] - p.size \in Nat
    BY <1>1, <1>2
  <2> QED
    BY <1>1, <1>2, <2>1
<1>7. lpf \in [PortQueue -> Nat]
  <2>1. Lpf(m.egressLpf_bytes[o], left) \in Nat
    BY <1>1, <1>2, <1>3, LpfType
  <2> HIDE DEF left
  <2> QED
    BY <1>1, <1>2, <2>1
<1>8. RemoveFromEgressAdmission(m, p) = IF p.type = LOSSLESS THEN c ELSE n
  <2>1. pool = [m.egressPoolUsed EXCEPT ![p.type] = Monus(@, p.size)]
    BY <1>4
  <2>2. p.type # LOSSLESS => Monus(c.sharedPoolUsed, p.size) = m.sharedPoolUsed - p.size
    BY <1>1, <1>2 DEF Monus, MmuType
  <2>3. lpf = [c.egressLpf_bytes EXCEPT ![o] = Lpf(@, left)]
    BY DEF MmuType
  <2> HIDE DEF pool, lpf, left
  <2> QED
    BY <1>4, <2>1, <2>2, <2>3 DEF RemoveFromEgressAdmission
<1>9. bytes = [m.egress_bytes EXCEPT ![o] = @ - p.size]
  OBVIOUS
<1> HIDE DEF bytes, pool, lpf
<1>10. c \in MmuType
  BY <1>5, <1>6 DEF MmuType
<1>11. CASE p.type = LOSSLESS
  <2>1. EgressRemoved(c, m, p)
    BY <1>9, <1>11 DEF EgressRemoved, MmuType, pool
  <2> QED
    BY <1>8, <1>10, <1>11, <2>1
<1>12. CASE p.type # LOSSLESS
  <2>1. m.sharedPoolUsed - p.size \in Nat
    BY <1>1, <1>2, <1>12
  <2>2. n \in MmuType
    BY <1>7, <1>10, <2>1 DEF MmuType
  <2>3. /\ n.egress_bytes = bytes
        /\ n.egressPoolUsed = pool
        /\ n.sharedPoolUsed = m.sharedPoolUsed - p.size
        /\ n.egressLpf_bytes = lpf
        /\ n.ingress_bytes = m.ingress_bytes
        /\ n.totalUsed = m.totalUsed
        /\ n.totalIngressReservedUsed = m.totalIngressReservedUsed
        /\ n.xoffUsed = m.xoffUsed
        /\ n.xoffTotalUsed = m.xoffTotalUsed
        /\ n.ingressLpf_bytes = m.ingressLpf_bytes
        /\ n.paused = m.paused
    BY DEF MmuType
  <2> HIDE DEF n
  <2>4. lpf = [m.egressLpf_bytes EXCEPT ![o] = Lpf(@, n.egress_bytes[o])]
    BY <1>5, <2>3 DEF lpf
  <2>5. EgressRemoved(n, m, p)
    BY <1>9, <1>12, <2>3, <2>4 DEF EgressRemoved, pool
  <2> QED
    BY <1>8, <1>12, <2>2, <2>5
<1> QED
  BY <1>11, <1>12

\* n differs from m at most in what is congested and who is paused.
SameBytes(n, m) ==
  /\ n.ingress_bytes = m.ingress_bytes
  /\ n.egress_bytes = m.egress_bytes
  /\ n.xoffUsed = m.xoffUsed
  /\ n.ingressLpf_bytes = m.ingressLpf_bytes
  /\ n.egressLpf_bytes = m.egressLpf_bytes
  /\ n.totalUsed = m.totalUsed
  /\ n.xoffTotalUsed = m.xoffTotalUsed
  /\ n.totalIngressReservedUsed = m.totalIngressReservedUsed
  /\ n.sharedPoolUsed = m.sharedPoolUsed
  /\ n.egressPoolUsed = m.egressPoolUsed

\* Resuming touches no byte count, and the queue stays paused exactly if it was
\* and CheckShouldResume is false.
LEMMA ResumeCounters ==
  ASSUME NEW m \in MmuType, NEW i \in PortQueue
  PROVE  LET n == ResumeIfPossible(m, i)
         IN  /\ n \in MmuType
             /\ SameBytes(n, m)
             /\ n.paused = [m.paused EXCEPT ![i] = @ /\ ~CheckShouldResume(m, i)]
<1> DEFINE computed == bufferModel = "reverie" /\ m.paused[i] /\ m.xoffUsed[i] = 0
                         /\ ~BelowXon(m, i)
           seen == IF computed THEN setCongestedIngress(m, i) ELSE m
           paused == [seen.paused EXCEPT ![i] = @ /\ ~CheckShouldResume(m, i)]
           n == [seen EXCEPT !.paused = paused]
<1>1. seen \in MmuType /\ SameCounters(seen, m)
  <2>1. SameCounters(m, m)
    BY DEF SameCounters
  <2> HIDE DEF computed
  <2> QED
    BY <2>1, SetCongestedIngressCounters
<1>2. ResumeIfPossible(m, i) = n
  BY DEF ResumeIfPossible
<1> HIDE DEF seen
<1>3. paused \in [PortQueue -> BOOLEAN]
  <2>1. seen.paused \in [PortQueue -> BOOLEAN]
    BY <1>1 DEF MmuType
  <2>2. (seen.paused[i] /\ ~CheckShouldResume(m, i)) \in BOOLEAN
    OBVIOUS
  <2> QED
    BY <2>1, <2>2
<1>4. paused = [m.paused EXCEPT ![i] = @ /\ ~CheckShouldResume(m, i)]
  BY <1>1 DEF SameCounters
<1> HIDE DEF paused
<1>5. n \in MmuType
  BY <1>1, <1>3 DEF MmuType
<1>6. n.paused = paused
  BY <1>1 DEF MmuType
<1>7. SameBytes(n, seen)
  BY <1>1 DEF SameBytes, MmuType
<1>8. SameBytes(n, m)
  <2> HIDE DEF n
  <2> QED
    BY <1>1, <1>7 DEF SameBytes, SameCounters
<1> QED
  BY <1>2, <1>4, <1>5, <1>6, <1>8

\* n is m after Released for p, h bytes of it from the headroom.
ReleasedCounters(n, m, p, h) ==
  /\ n.ingress_bytes = [m.ingress_bytes EXCEPT ![In(p)] = @ - p.size]
  /\ n.egress_bytes = [m.egress_bytes EXCEPT ![Out(p)] = @ - p.size]
  /\ n.egressPoolUsed = [m.egressPoolUsed EXCEPT ![p.type] = @ - p.size]
  /\ n.totalUsed = m.totalUsed - p.size
  /\ n.totalIngressReservedUsed
       = Monus(m.totalIngressReservedUsed, GetIngressReservedUsed(m, In(p)))
           + GetIngressReservedUsed(n, In(p))
  /\ n.sharedPoolUsed = m.sharedPoolUsed + h - p.size
  /\ n.xoffUsed = [m.xoffUsed EXCEPT ![In(p)] = @ - h]
  /\ n.xoffTotalUsed = m.xoffTotalUsed - h
  /\ n.ingressLpf_bytes
       = IF p.type = LOSSLESS
         THEN [m.ingressLpf_bytes EXCEPT ![In(p)] = Lpf(@, n.ingress_bytes[In(p)])]
         ELSE m.ingressLpf_bytes
  /\ n.egressLpf_bytes
       = IF p.type = LOSSLESS THEN m.egressLpf_bytes
         ELSE [m.egressLpf_bytes EXCEPT ![Out(p)] = Lpf(@, n.egress_bytes[Out(p)])]

\* Whom a release resumes: the departing packet's queue only, never while it is
\* in its headroom, and always when it falls below xon.
PausedAfterRelease(n, m, p) ==
  /\ \A i \in PortQueue \ {In(p)} : n.paused[i] = m.paused[i]
  /\ n.paused[In(p)] => m.paused[In(p)]
  /\ n.xoffUsed[In(p)] > 0 => n.paused[In(p)] = m.paused[In(p)]
  /\ n.paused[In(p)] /\ n.xoffUsed[In(p)] = 0 => ~BelowXon(n, In(p))

\* What releasing a counted packet does to the counters.
LEMMA ReleasedStep ==
  ASSUME NEW m \in MmuType, NEW p \in Packets, Counted(m, p)
  PROVE  LET n == Released(m, p)
         IN  /\ n \in MmuType
             /\ ReleasedCounters(n, m, p, HeadroomReturned(m, p))
             /\ PausedAfterRelease(n, m, p)
<1> DEFINE i == In(p)
           h == HeadroomReturned(m, p)
           r == RemoveFromIngressAdmission(m, p)
           e == RemoveFromEgressAdmission(r, p)
           n == ResumeIfPossible(e, i)
<1>1. r \in MmuType /\ IngressRemoved(r, m, p, h)
  BY RemoveFromIngressCounters
<1>2. i \in PortQueue /\ p.size \in Nat /\ p.type \in Classes
  BY PacketFields
<1>3. m.sharedPoolUsed \in Nat /\ m.xoffUsed \in [PortQueue -> Nat]
  BY DEF MmuType
<1>4. h \in Nat /\ (h # 0 => p.type = LOSSLESS)
  BY HeadroomReturnedType
<1>5. p.size <= m.sharedPoolUsed + h
  BY DEF Counted
<1> HIDE DEF r, h
<1>6. e \in MmuType /\ EgressRemoved(e, r, p)
  <2>1. p.size <= r.egress_bytes[Out(p)] /\ p.size <= r.egressPoolUsed[p.type]
    BY <1>1 DEF IngressRemoved, Counted
  <2>2. p.type # LOSSLESS => p.size <= r.sharedPoolUsed
    BY <1>1, <1>3, <1>4, <1>5 DEF IngressRemoved
  <2> QED
    BY <1>1, <2>1, <2>2, RemoveFromEgressCounters
<1> HIDE DEF e
<1>7. /\ n \in MmuType /\ SameBytes(n, e)
      /\ n.paused = [e.paused EXCEPT ![i] = @ /\ ~CheckShouldResume(e, i)]
  BY <1>2, <1>6, ResumeCounters
<1> HIDE DEF n
<1>8. Released(m, p) = n
  BY DEF Released, n, e, r
<1>9. ReleasedCounters(n, m, p, h)
  <2>1. GetIngressReservedUsed(n, i) = GetIngressReservedUsed(r, i)
    BY <1>6, <1>7 DEF GetIngressReservedUsed, SameBytes, EgressRemoved
  <2>2. n.sharedPoolUsed = m.sharedPoolUsed + h - p.size
    <3>1. CASE p.type = LOSSLESS
      BY <1>1, <1>6, <1>7, <3>1 DEF SameBytes, EgressRemoved, IngressRemoved
    <3>2. CASE p.type # LOSSLESS
      <4>1. n.sharedPoolUsed = m.sharedPoolUsed - p.size /\ h = 0
        BY <1>1, <1>4, <1>6, <1>7, <3>2 DEF SameBytes, EgressRemoved, IngressRemoved
      <4> QED
        BY <1>2, <1>3, <4>1
    <3> QED
      BY <3>1, <3>2
  <2>3. /\ n.ingress_bytes = [m.ingress_bytes EXCEPT ![In(p)] = @ - p.size]
        /\ n.egress_bytes = [m.egress_bytes EXCEPT ![Out(p)] = @ - p.size]
        /\ n.egressPoolUsed = [m.egressPoolUsed EXCEPT ![p.type] = @ - p.size]
        /\ n.totalUsed = m.totalUsed - p.size
        /\ n.xoffUsed = [m.xoffUsed EXCEPT ![In(p)] = @ - h]
        /\ n.xoffTotalUsed = m.xoffTotalUsed - h
    BY <1>1, <1>6, <1>7 DEF SameBytes, EgressRemoved, IngressRemoved
  <2>4. /\ n.ingressLpf_bytes
             = IF p.type = LOSSLESS
               THEN [m.ingressLpf_bytes EXCEPT ![In(p)] = Lpf(@, n.ingress_bytes[In(p)])]
               ELSE m.ingressLpf_bytes
        /\ n.egressLpf_bytes
             = IF p.type = LOSSLESS THEN m.egressLpf_bytes
               ELSE [m.egressLpf_bytes EXCEPT ![Out(p)] = Lpf(@, n.egress_bytes[Out(p)])]
    BY <1>1, <1>6, <1>7 DEF SameBytes, EgressRemoved, IngressRemoved
  <2> QED
    BY <1>1, <1>6, <1>7, <2>1, <2>2, <2>3, <2>4
       DEF ReleasedCounters, SameBytes, EgressRemoved, IngressRemoved
<1>10. PausedAfterRelease(n, m, p)
  <2>1. e.paused = m.paused /\ e.paused \in [PortQueue -> BOOLEAN]
    BY <1>1, <1>6 DEF EgressRemoved, IngressRemoved, MmuType
  <2>2. n.paused[i] = (m.paused[i] /\ ~CheckShouldResume(e, i))
    BY <1>2, <1>7, <2>1
  <2>3. \A j \in PortQueue \ {i} : n.paused[j] = m.paused[j]
    BY <1>2, <1>7, <2>1
  <2>4. n.xoffUsed[i] = e.xoffUsed[i] /\ BelowXon(n, i) = BelowXon(e, i)
    BY <1>7 DEF SameBytes, BelowXon, LosslessOccupancy
  <2>5. CheckShouldResume(e, i) => e.xoffUsed[i] = 0
    BY DEF CheckShouldResume
  <2>6. m.paused[i] /\ e.xoffUsed[i] = 0 /\ BelowXon(e, i) => CheckShouldResume(e, i)
    BY <2>1 DEF CheckShouldResume
  <2>7. m.paused[i] \in BOOLEAN
    BY <1>2, <2>1
  <2>8. n.xoffUsed[i] > 0 => ~CheckShouldResume(e, i)
    BY <2>4, <2>5
  <2>9. n.xoffUsed[i] > 0 => n.paused[i] = m.paused[i]
    BY <2>2, <2>7, <2>8
  <2>10. n.paused[i] /\ n.xoffUsed[i] = 0 => ~BelowXon(n, i)
    BY <2>2, <2>4, <2>6, Zenon
  <2>11. n.paused[i] => m.paused[i]
    BY <2>2
  <2> QED
    BY <2>3, <2>9, <2>10, <2>11 DEF PausedAfterRelease
<1> QED
  BY <1>7, <1>8, <1>9, <1>10 DEF h
===============================================================================
