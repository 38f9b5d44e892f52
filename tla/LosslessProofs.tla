---------------------------- MODULE LosslessProofs ----------------------------
(***************************************************************************)
(* Proofs about SwitchBuffer and PfcLink.                                  *)
(*                                                                         *)
(* The properties of SwitchBuffer hold for every configuration that meets  *)
(* MmuConfiguration: any number of ports, queues and packets, any pool     *)
(* sizes, both buffer models, whatever the thresholds are.  Only that no   *)
(* lossless packet is dropped needs more, LosslessConfiguration.  The      *)
(* inductive invariant Accounts relates MMU state m to buffer content H.   *)
(* Two lemmas carry the argument: admitting a packet that is not in H and  *)
(* releasing one that is preserve Accounts.  A cut-through is both.        *)
(*                                                                         *)
(* PfcLink adds the headroom that a link needs, for every delay, every     *)
(* size of packets and every number of priorities.  The argument is about  *)
(* two clocks.  A pause that is queued has at most Notice to go, because   *)
(* pauses need packets and packets take time on the link (Backlog).  And   *)
(* what a queue has in its headroom is no more than what fits on the link  *)
(* since the pause was queued (HeadroomClock).  Neither adds up the        *)
(* packets on the link: it is enough that any two of them arrive as far    *)
(* apart as the later one is long (OnWire).  With the headroom sufficient, *)
(* a lossless packet passes every check there is.                          *)
(***************************************************************************)
EXTENDS PfcLink, SwitchMmuProofs, ByteTotalsProofs

-------------------------------------------------------------------------------
(* Bytes of sets of packets *)

\* The size function of Bytes gives every packet its size, a natural number.
LEMMA SizeType == \A p \in Packets : Size[p] = p.size /\ Size[p] \in Nat
BY MmuConfiguration DEF PacketType, Size

\* A finite set of packets has a natural number of bytes.
LEMMA BytesType ==
  ASSUME NEW S \in SUBSET Packets, IsFiniteSet(S)
  PROVE  Bytes(S) \in Nat
BY SizeType, TotalType DEF Bytes

\* A packet brings its bytes.
LEMMA BytesAdd ==
  ASSUME NEW S \in SUBSET Packets, IsFiniteSet(S), NEW p \in Packets, p \notin S
  PROVE  Bytes(S \cup {p}) = Bytes(S) + p.size
BY SizeType, TotalAdd DEF Bytes

\* A packet takes its bytes along.
LEMMA BytesRemove ==
  ASSUME NEW S \in SUBSET Packets, IsFiniteSet(S), NEW p \in S
  PROVE  /\ Bytes(S \ {p}) \in Nat
         /\ Bytes(S) = Bytes(S \ {p}) + p.size
BY SizeType, TotalRemove DEF Bytes

\* A part of the packets has at most their bytes.
LEMMA BytesPart ==
  ASSUME NEW S \in SUBSET Packets, IsFiniteSet(S), NEW T \in SUBSET S
  PROVE  /\ IsFiniteSet(T) /\ T \in SUBSET Packets
         /\ Bytes(T) \in Nat
         /\ Bytes(T) <= Bytes(S)
<1>1. \A x \in S : Size[x] \in Nat
  BY SizeType
<1>2. IsFiniteSet(T) /\ Total(T, Size) \in Nat /\ Total(T, Size) <= Total(S, Size)
  BY <1>1, TotalPart
<1> QED
  BY <1>2 DEF Bytes

-------------------------------------------------------------------------------
(* The inductive invariant *)

Lossless(H, i) == OfClass(From(H, i), LOSSLESS)

Holds(m, H) ==
  /\ m \in MmuType
  /\ H \in SUBSET DataPackets
  /\ IsFiniteSet(H)

BytesMatch(m, H) ==
  /\ m.totalUsed = Bytes(H)
  /\ \A i \in PortQueue : m.ingress_bytes[i] = Bytes(From(H, i))
  /\ \A o \in PortQueue : m.egress_bytes[o] = Bytes(To(H, o))
  /\ \A c \in Classes : m.egressPoolUsed[c] = Bytes(OfClass(H, c))

HeadroomFits(m, H) ==
  \A i \in PortQueue : m.xoffUsed[i] <= Bytes(Lossless(H, i))

PoolsMatch(m) ==
  /\ m.xoffTotalUsed + m.sharedPoolUsed = m.totalUsed
  /\ m.xoffTotalUsed = Total(PortQueue, m.xoffUsed)
  /\ m.sharedPoolUsed = Total(PortQueue, SharedOf(m))
  /\ m.totalIngressReservedUsed = Total(PortQueue, ReservedOf(m))

HeadroomLimited(m, H) ==
  \A i \in PortQueue :
    \/ m.xoffUsed[i] <= xoff[i]
    \/ m.xoffUsed[i] <= reserveIngress[i]
    \/ \E p \in Lossless(H, i) : m.xoffUsed[i] <= p.size

WithinPools(m) ==
  /\ m.totalUsed <= bufferPool
  /\ bufferModel = "sonic" =>
       \A c \in Classes : m.egressPoolUsed[c] <= egressPool[c]

HeadroomPauses(m) == \A i \in PortQueue : m.xoffUsed[i] > 0 => m.paused[i]

\* The filter of an ingress queue that never carries lossless packets stays zero,
\* and so does the filter of an egress queue that never carries lossy ones.
FiltersBelow(m) ==
  OneClassPerPriority =>
    \A i \in PortQueue :
      /\ m.ingressLpf_bytes[i] <= m.ingress_bytes[i]
      /\ m.egressLpf_bytes[i] <= m.egress_bytes[i]
      /\ m.ingressLpf_bytes[i] = 0
           \/ \E p \in DataPackets : p.qIndex = i[2] /\ p.type = LOSSLESS
      /\ m.egressLpf_bytes[i] = 0
           \/ \E p \in DataPackets : p.qIndex = i[2] /\ p.type = LOSSY

PausedOccupied(m) ==
  (bufferModel = "sonic" \/ OneClassPerPriority) =>
    \A i \in PortQueue : m.paused[i] /\ xon[i] > 0 => m.ingress_bytes[i] > 0

Accounts(m, H) ==
  /\ Holds(m, H)
  /\ BytesMatch(m, H)
  /\ HeadroomFits(m, H)
  /\ PoolsMatch(m)
  /\ HeadroomLimited(m, H)
  /\ WithinPools(m)
  /\ HeadroomPauses(m)
  /\ FiltersBelow(m)
  /\ PausedOccupied(m)

Inv == Accounts(mmu, held)

-------------------------------------------------------------------------------
(* The parts of the buffer after an arrival and a departure *)

\* The parts of the buffer (by ingress queue, egress queue and class) after a
\* packet joins it: the packet's own part gains it, the others are unchanged.
LEMMA PartsAfterAdd ==
  ASSUME NEW H \in SUBSET DataPackets, NEW p \in DataPackets \ H
  PROVE  /\ \A i : From(H \cup {p}, i)
                     = IF In(p) = i THEN From(H, i) \cup {p} ELSE From(H, i)
         /\ \A o : To(H \cup {p}, o)
                     = IF Out(p) = o THEN To(H, o) \cup {p} ELSE To(H, o)
         /\ \A c : OfClass(H \cup {p}, c)
                     = IF p.type = c THEN OfClass(H, c) \cup {p} ELSE OfClass(H, c)
         /\ \A i : Lossless(H \cup {p}, i)
                     = IF In(p) = i /\ p.type = LOSSLESS
                       THEN Lossless(H, i) \cup {p} ELSE Lossless(H, i)
BY DEF From, To, OfClass, Lossless

\* The same after a packet leaves it.
LEMMA PartsAfterRemove ==
  ASSUME NEW H \in SUBSET DataPackets, NEW p \in H
  PROVE  /\ \A i : From(H \ {p}, i)
                     = IF In(p) = i THEN From(H, i) \ {p} ELSE From(H, i)
         /\ \A o : To(H \ {p}, o)
                     = IF Out(p) = o THEN To(H, o) \ {p} ELSE To(H, o)
         /\ \A c : OfClass(H \ {p}, c)
                     = IF p.type = c THEN OfClass(H, c) \ {p} ELSE OfClass(H, c)
         /\ \A i : Lossless(H \ {p}, i)
                     = IF In(p) = i /\ p.type = LOSSLESS
                       THEN Lossless(H, i) \ {p} ELSE Lossless(H, i)
BY DEF From, To, OfClass, Lossless

\* Every part of a finite buffer is a finite set of packets.
LEMMA PartsFinite ==
  ASSUME NEW H \in SUBSET DataPackets, IsFiniteSet(H)
  PROVE  /\ H \in SUBSET Packets
         /\ \A i : From(H, i) \in SUBSET Packets /\ IsFiniteSet(From(H, i))
         /\ \A o : To(H, o) \in SUBSET Packets /\ IsFiniteSet(To(H, o))
         /\ \A c : OfClass(H, c) \in SUBSET Packets /\ IsFiniteSet(OfClass(H, c))
         /\ \A i : Lossless(H, i) \in SUBSET Packets /\ IsFiniteSet(Lossless(H, i))
<1>1. H \in SUBSET Packets
  BY DEF DataPackets
<1>2. \A T \in SUBSET H : T \in SUBSET Packets /\ IsFiniteSet(T)
  BY <1>1, FS_Subset
<1>3. /\ \A i : From(H, i) \in SUBSET H
      /\ \A o : To(H, o) \in SUBSET H
      /\ \A c : OfClass(H, c) \in SUBSET H
      /\ \A i : Lossless(H, i) \in SUBSET H
  BY DEF From, To, OfClass, Lossless
<1> QED
  BY <1>1, <1>2, <1>3

-------------------------------------------------------------------------------
(* The pools: sums over the queues *)

\* All queues of a switch are finitely many.
LEMMA PortQueueFinite == IsFiniteSet(PortQueue)
BY MmuConfiguration, FS_Product DEF PortQueue

\* A queue's headroom is part of its bytes, so the shared use is a natural number.
LEMMA SharedOfType ==
  ASSUME NEW m, NEW H, Holds(m, H), BytesMatch(m, H), HeadroomFits(m, H)
  PROVE  \A i \in PortQueue : /\ m.xoffUsed[i] <= m.ingress_bytes[i]
                              /\ SharedOf(m)[i] = m.ingress_bytes[i] - m.xoffUsed[i]
                              /\ SharedOf(m)[i] \in Nat
<1> SUFFICES ASSUME NEW i \in PortQueue
             PROVE  /\ m.xoffUsed[i] <= m.ingress_bytes[i]
                    /\ SharedOf(m)[i] = m.ingress_bytes[i] - m.xoffUsed[i]
                    /\ SharedOf(m)[i] \in Nat
  OBVIOUS
<1>1. From(H, i) \in SUBSET Packets /\ IsFiniteSet(From(H, i))
  BY PartsFinite DEF Holds
<1>2. Lossless(H, i) \in SUBSET From(H, i)
  BY DEF Lossless, OfClass
<1>3. /\ Bytes(Lossless(H, i)) \in Nat
      /\ Bytes(Lossless(H, i)) <= Bytes(From(H, i))
  BY <1>1, <1>2, BytesPart
<1>4. m.xoffUsed[i] \in Nat /\ m.ingress_bytes[i] \in Nat
  BY DEF Holds, MmuType
<1>5. m.xoffUsed[i] <= m.ingress_bytes[i]
  BY <1>3, <1>4 DEF HeadroomFits, BytesMatch
<1>6. SharedOf(m)[i] = m.ingress_bytes[i] - m.xoffUsed[i]
  BY DEF SharedOf
<1> QED
  BY <1>4, <1>5, <1>6

\* The reserved use of every ingress queue is a natural number.
LEMMA ReservedOfType ==
  ASSUME NEW m \in MmuType
  PROVE  \A i \in PortQueue : /\ ReservedOf(m)[i] = GetIngressReservedUsed(m, i)
                              /\ ReservedOf(m)[i] \in Nat
<1>1. \A i \in PortQueue : m.ingress_bytes[i] \in Nat /\ reserveIngress[i] \in Nat
  BY MmuConfiguration DEF MmuType
<1> QED
  BY <1>1 DEF ReservedOf, GetIngressReservedUsed, Smaller

\* When the bytes and the headroom of one queue change, the sums follow.
LEMMA PoolsFollow ==
  ASSUME NEW m \in MmuType, NEW n \in MmuType, NEW i \in PortQueue,
         PoolsMatch(m),
         \A j \in PortQueue : SharedOf(m)[j] \in Nat /\ SharedOf(n)[j] \in Nat,
         \A j \in PortQueue \ {i} : /\ n.ingress_bytes[j] = m.ingress_bytes[j]
                                    /\ n.xoffUsed[j] = m.xoffUsed[j],
         n.totalUsed = m.totalUsed + n.ingress_bytes[i] - m.ingress_bytes[i],
         n.xoffTotalUsed = m.xoffTotalUsed + n.xoffUsed[i] - m.xoffUsed[i],
         n.sharedPoolUsed = m.sharedPoolUsed + SharedOf(n)[i] - SharedOf(m)[i],
         n.totalIngressReservedUsed
           = Monus(m.totalIngressReservedUsed, GetIngressReservedUsed(m, i))
               + GetIngressReservedUsed(n, i)
  PROVE  PoolsMatch(n)
<1>1. \A j \in PortQueue : /\ m.xoffUsed[j] \in Nat /\ n.xoffUsed[j] \in Nat
                           /\ m.ingress_bytes[j] \in Nat /\ n.ingress_bytes[j] \in Nat
  BY DEF MmuType
<1>2. /\ m.xoffTotalUsed \in Nat /\ m.sharedPoolUsed \in Nat /\ m.totalUsed \in Nat
      /\ n.xoffTotalUsed \in Nat /\ n.sharedPoolUsed \in Nat /\ n.totalUsed \in Nat
  BY DEF MmuType
<1>3. n.xoffTotalUsed = Total(PortQueue, n.xoffUsed)
  <2>1. Total(PortQueue, n.xoffUsed) + m.xoffUsed[i]
          = Total(PortQueue, m.xoffUsed) + n.xoffUsed[i]
    <3> DEFINE v == n.xoffUsed
               w == m.xoffUsed
    <3>1. /\ \A j \in PortQueue : v[j] \in Nat /\ w[j] \in Nat
          /\ \A j \in PortQueue \ {i} : v[j] = w[j]
      BY <1>1
    <3> HIDE DEF v, w
    <3>2. Total(PortQueue, v) + w[i] = Total(PortQueue, w) + v[i]
      BY <3>1, PortQueueFinite, TotalChange
    <3> QED
      BY <3>2 DEF v, w
  <2>2. Total(PortQueue, n.xoffUsed) \in Nat
    BY <1>1, PortQueueFinite, TotalType
  <2> QED
    BY <1>1, <1>2, <2>1, <2>2 DEF PoolsMatch
<1>4. n.sharedPoolUsed = Total(PortQueue, SharedOf(n))
  <2>1. \A j \in PortQueue \ {i} : SharedOf(n)[j] = SharedOf(m)[j]
    BY DEF SharedOf
  <2>2. Total(PortQueue, SharedOf(n)) + SharedOf(m)[i]
          = Total(PortQueue, SharedOf(m)) + SharedOf(n)[i]
    BY <2>1, PortQueueFinite, TotalChange
  <2>3. Total(PortQueue, SharedOf(n)) \in Nat
    BY PortQueueFinite, TotalType
  <2> QED
    BY <1>2, <2>2, <2>3 DEF PoolsMatch
<1>5. n.totalIngressReservedUsed = Total(PortQueue, ReservedOf(n))
  <2>1. \A j \in PortQueue : /\ ReservedOf(m)[j] = GetIngressReservedUsed(m, j)
                             /\ ReservedOf(n)[j] = GetIngressReservedUsed(n, j)
                             /\ ReservedOf(m)[j] \in Nat /\ ReservedOf(n)[j] \in Nat
    BY ReservedOfType
  <2>2. \A j \in PortQueue \ {i} : ReservedOf(n)[j] = ReservedOf(m)[j]
    BY <2>1 DEF GetIngressReservedUsed
  <2>3. Total(PortQueue, ReservedOf(n)) + ReservedOf(m)[i]
          = Total(PortQueue, ReservedOf(m)) + ReservedOf(n)[i]
    BY <2>1, <2>2, PortQueueFinite, TotalChange
  <2>4. /\ Total(PortQueue, ReservedOf(m)) \in Nat
        /\ Total(PortQueue, ReservedOf(n)) \in Nat
    BY <2>1, PortQueueFinite, TotalType
  <2>5. /\ Total(PortQueue \ {i}, ReservedOf(m)) \in Nat
        /\ Total(PortQueue, ReservedOf(m))
             = Total(PortQueue \ {i}, ReservedOf(m)) + ReservedOf(m)[i]
    BY <2>1, PortQueueFinite, TotalRemove
  <2>6. Monus(m.totalIngressReservedUsed, GetIngressReservedUsed(m, i))
          = Total(PortQueue, ReservedOf(m)) - ReservedOf(m)[i]
    BY <2>1, <2>4, <2>5 DEF Monus, PoolsMatch
  <2> QED
    BY <2>1, <2>3, <2>4, <2>6
<1>6. n.xoffTotalUsed + n.sharedPoolUsed = n.totalUsed
  <2>1. /\ SharedOf(n)[i] = n.ingress_bytes[i] - n.xoffUsed[i]
        /\ SharedOf(m)[i] = m.ingress_bytes[i] - m.xoffUsed[i]
    BY DEF SharedOf
  <2> QED
    BY <1>1, <1>2, <2>1 DEF PoolsMatch
<1> QED
  BY <1>3, <1>4, <1>5, <1>6 DEF PoolsMatch
-------------------------------------------------------------------------------
(* The empty buffer *)

\* A new MMU is well typed.
LEMMA NewMmuType == NewMmu \in MmuType
<1>1. \A q \in Queues : 0 \in Nat /\ 0 \in Int
  OBVIOUS
<1> QED
  BY <1>1 DEF NewMmu, MmuType

\* A new MMU accounts for the empty buffer.
LEMMA InitAccounts == Accounts(NewMmu, {})
<1> DEFINE m == NewMmu
<1>1. /\ m \in MmuType
      /\ m.totalUsed = 0 /\ m.xoffTotalUsed = 0 /\ m.sharedPoolUsed = 0
      /\ m.totalIngressReservedUsed = 0
      /\ \A c \in Classes : m.egressPoolUsed[c] = 0
      /\ \A i \in PortQueue :
           /\ m.ingress_bytes[i] = 0 /\ m.egress_bytes[i] = 0
           /\ m.xoffUsed[i] = 0 /\ m.paused[i] = FALSE
           /\ m.ingressLpf_bytes[i] = 0 /\ m.egressLpf_bytes[i] = 0
  BY NewMmuType DEF NewMmu
<1> HIDE DEF m
<1>2. Bytes({}) = 0
  BY TotalEmpty DEF Bytes
<1>3. /\ \A i : From({}, i) = {}
      /\ \A o : To({}, o) = {}
      /\ \A c : OfClass({}, c) = {}
      /\ \A i : Lossless({}, i) = {}
  BY DEF From, To, OfClass, Lossless
<1>4. \A i \in PortQueue : xoff[i] \in Nat /\ reserveIngress[i] \in Nat
  BY MmuConfiguration
<1>5. Holds(m, {})
  BY <1>1, FS_EmptySet DEF Holds
<1>6. BytesMatch(m, {})
  BY <1>1, <1>2, <1>3 DEF BytesMatch
<1>7. HeadroomFits(m, {})
  BY <1>1, <1>2, <1>3 DEF HeadroomFits
<1>8. PoolsMatch(m)
  <2>1. \A i \in PortQueue : SharedOf(m)[i] = 0
    BY <1>1 DEF SharedOf
  <2>2. \A i \in PortQueue : ReservedOf(m)[i] = 0
    BY <1>1, <1>4 DEF ReservedOf, GetIngressReservedUsed, Smaller
  <2>3. Total(PortQueue, m.xoffUsed) = 0
    <3> DEFINE w == m.xoffUsed
    <3>1. \A i \in PortQueue : w[i] = 0
      BY <1>1
    <3> HIDE DEF w
    <3>2. Total(PortQueue, w) = 0
      BY <3>1, TotalZero
    <3> QED
      BY <3>2 DEF w
  <2>4. Total(PortQueue, SharedOf(m)) = 0
    BY <2>1, TotalZero
  <2>5. Total(PortQueue, ReservedOf(m)) = 0
    BY <2>2, TotalZero
  <2> QED
    BY <1>1, <2>3, <2>4, <2>5 DEF PoolsMatch
<1>9. HeadroomLimited(m, {})
  BY <1>1, <1>4 DEF HeadroomLimited
<1>10. WithinPools(m)
  BY <1>1, MmuConfiguration DEF WithinPools
<1>11. HeadroomPauses(m)
  BY <1>1 DEF HeadroomPauses
<1>12. FiltersBelow(m)
  BY <1>1 DEF FiltersBelow
<1>13. PausedOccupied(m)
  BY <1>1 DEF PausedOccupied
<1> QED
  BY <1>5, <1>6, <1>7, <1>8, <1>9, <1>10, <1>11, <1>12, <1>13 DEF Accounts, m

-------------------------------------------------------------------------------
(* A packet of the buffer is counted *)

\* A queue's bytes are at least those of any of its packets, and leave room for
\* its headroom beside a lossy one.
LEMMA CountedInBuffer ==
  ASSUME NEW m, NEW H, Accounts(m, H), NEW p \in H
  PROVE  Counted(m, p)
<1> DEFINE i == In(p)
           o == Out(p)
<1>1. /\ Holds(m, H) /\ BytesMatch(m, H) /\ HeadroomFits(m, H) /\ PoolsMatch(m)
      /\ m \in MmuType /\ H \in SUBSET DataPackets /\ IsFiniteSet(H)
  BY DEF Accounts, Holds
<1>2. p \in Packets /\ i \in PortQueue /\ o \in PortQueue /\ p.type \in Classes
      /\ p.size \in Nat
  BY <1>1, PacketFields DEF DataPackets
<1>3. ASSUME NEW T \in SUBSET Packets, IsFiniteSet(T), p \in T
      PROVE  p.size <= Bytes(T)
  <2>1. Bytes(T \ {p}) \in Nat /\ Bytes(T) = Bytes(T \ {p}) + p.size
    BY <1>3, BytesRemove
  <2> QED
    BY <1>2, <2>1
<1>4. p \in From(H, i) /\ p \in To(H, o) /\ p \in OfClass(H, p.type)
  BY DEF From, To, OfClass
<1>5. /\ p.size <= Bytes(H) /\ p.size <= Bytes(From(H, i))
      /\ p.size <= Bytes(To(H, o)) /\ p.size <= Bytes(OfClass(H, p.type))
  BY <1>1, <1>3, <1>4, PartsFinite
<1>6. /\ m.xoffUsed[i] \in Nat /\ m.ingress_bytes[i] \in Nat
      /\ m.xoffTotalUsed \in Nat /\ m.sharedPoolUsed \in Nat
  BY <1>1, <1>2 DEF MmuType
<1>7. m.xoffUsed[i] <= m.xoffTotalUsed
  <2> DEFINE w == m.xoffUsed
  <2>1. \A j \in PortQueue : w[j] \in Nat
    BY <1>1 DEF MmuType
  <2>2. m.xoffTotalUsed = Total(PortQueue, w)
    BY <1>1 DEF PoolsMatch
  <2> HIDE DEF w, i
  <2>3. Total(PortQueue \ {i}, w) \in Nat
        /\ Total(PortQueue, w) = Total(PortQueue \ {i}, w) + w[i]
    BY <1>2, <2>1, PortQueueFinite, TotalRemove
  <2>4. w[i] \in Nat
    BY <1>2, <2>1
  <2>5. w[i] <= m.xoffTotalUsed
    BY <2>2, <2>3, <2>4
  <2> QED
    BY <2>5 DEF w
<1>8. m.ingress_bytes[i] - m.xoffUsed[i] <= m.sharedPoolUsed
  <2>1. \A j \in PortQueue : SharedOf(m)[j] \in Nat
    BY <1>1, SharedOfType
  <2>2. /\ Total(PortQueue \ {i}, SharedOf(m)) \in Nat
        /\ Total(PortQueue, SharedOf(m))
             = Total(PortQueue \ {i}, SharedOf(m)) + SharedOf(m)[i]
    BY <1>2, <2>1, PortQueueFinite, TotalRemove
  <2>3. SharedOf(m)[i] = m.ingress_bytes[i] - m.xoffUsed[i]
    BY <1>2 DEF SharedOf
  <2>4. m.sharedPoolUsed = Total(PortQueue, SharedOf(m))
    BY <1>1 DEF PoolsMatch
  <2> QED
    BY <1>2, <2>1, <2>2, <2>3, <2>4
<1>9. p.size <= m.sharedPoolUsed + HeadroomReturned(m, p)
  <2>1. p.size <= m.ingress_bytes[i]
    BY <1>1, <1>2, <1>5 DEF BytesMatch
  <2>2. CASE p.type = LOSSLESS
    <3>1. HeadroomReturned(m, p) = p.size \/ HeadroomReturned(m, p) = m.xoffUsed[i]
      BY <1>1, <1>2, <2>2, HeadroomReturnedType
    <3> HIDE DEF i
    <3> QED
      BY <1>2, <1>6, <1>8, <2>1, <3>1
  <2>3. CASE p.type # LOSSLESS
    <3>1. p \notin Lossless(H, i) /\ Lossless(H, i) \cup {p} \in SUBSET From(H, i)
      BY <1>4, <2>3 DEF Lossless, OfClass
    <3>2. /\ From(H, i) \in SUBSET Packets /\ IsFiniteSet(From(H, i))
          /\ Lossless(H, i) \in SUBSET Packets /\ IsFiniteSet(Lossless(H, i))
      BY <1>1, PartsFinite
    <3>3. Bytes(Lossless(H, i) \cup {p}) = Bytes(Lossless(H, i)) + p.size
      BY <1>2, <3>1, <3>2, BytesAdd
    <3>4. Bytes(Lossless(H, i) \cup {p}) <= Bytes(From(H, i))
      BY <3>1, <3>2, BytesPart
    <3>5. Bytes(Lossless(H, i)) \in Nat
      BY <3>2, BytesType
    <3>6. m.xoffUsed[i] <= Bytes(Lossless(H, i)) /\ m.ingress_bytes[i] = Bytes(From(H, i))
      BY <1>1, <1>2 DEF HeadroomFits, BytesMatch
    <3>7. HeadroomReturned(m, p) = 0
      BY <2>3 DEF HeadroomReturned
    <3> HIDE DEF i
    <3> QED
      BY <1>2, <1>6, <1>8, <3>3, <3>4, <3>5, <3>6, <3>7
  <2> QED
    BY <2>2, <2>3
<1> QED
  BY <1>1, <1>2, <1>5, <1>7, <1>9 DEF Counted, BytesMatch
-------------------------------------------------------------------------------
(* Admission *)

\* The checks admit no packet that does not fit the buffer and, under "sonic",
\* its class's egress pool.
LEMMA AdmittedFits ==
  ASSUME NEW m \in MmuType, NEW p \in Packets, Admits(m, p)
  PROVE  /\ p.size + m.totalUsed <= bufferPool
         /\ bufferModel = "sonic" => p.size + m.egressPoolUsed[p.type] <= egressPool[p.type]
<1>1. CASE bufferModel = "sonic"
  BY <1>1 DEF Admits, CheckEgressAdmission, CheckEgressSonic
<1>2. CASE bufferModel # "sonic"
  <2>1. CASE p.type = LOSSLESS
    BY <1>2, <2>1 DEF Admits, CheckIngressAdmission, CheckIngressLossless
  <2>2. CASE p.type # LOSSLESS
    BY <1>2, <2>2 DEF Admits, CheckEgressAdmission, CheckEgressLossyReverie
  <2> QED
    BY <2>1, <2>2
<1> QED
  BY <1>1, <1>2

\* Admitting a packet preserves the invariant.
LEMMA AdmitPreserves ==
  ASSUME NEW m, NEW H, Accounts(m, H),
         NEW p \in DataPackets, p \notin H, Admits(m, p)
  PROVE  Accounts(Admitted(m, p), H \cup {p})
<1> DEFINE i == In(p)
           o == Out(p)
           n == Admitted(m, p)
           G == H \cup {p}
           d == HeadroomCharge(AfterChecks(m, p), p)
<1>1. /\ Holds(m, H) /\ BytesMatch(m, H) /\ HeadroomFits(m, H) /\ PoolsMatch(m)
      /\ HeadroomLimited(m, H) /\ WithinPools(m) /\ HeadroomPauses(m)
      /\ FiltersBelow(m) /\ PausedOccupied(m)
      /\ m \in MmuType /\ H \in SUBSET DataPackets /\ IsFiniteSet(H)
  BY DEF Accounts, Holds
<1>2. /\ p \in Packets /\ i \in PortQueue /\ o \in PortQueue /\ p.type \in Classes
      /\ p.size \in Nat /\ p.size > 0
  BY PacketFields DEF DataPackets
<1>3. /\ n \in MmuType /\ AdmittedCounters(n, m, p, d)
      /\ d \in {0, p.size}
      /\ d # 0 => p.type = LOSSLESS
      /\ p.type = LOSSLESS /\ m.xoffUsed[i] > 0 => d = p.size
  BY <1>1, <1>2, AdmittedStep
<1> HIDE DEF n, d
<1>4. \A j \in PortQueue : /\ m.ingress_bytes[j] \in Nat /\ n.ingress_bytes[j] \in Nat
                           /\ m.egress_bytes[j] \in Nat /\ n.egress_bytes[j] \in Nat
                           /\ m.xoffUsed[j] \in Nat /\ n.xoffUsed[j] \in Nat
                           /\ m.paused[j] \in BOOLEAN
                           /\ m.ingressLpf_bytes[j] \in Nat /\ m.egressLpf_bytes[j] \in Nat
  BY <1>1, <1>3 DEF MmuType
<1>5. /\ m.totalUsed \in Nat /\ m.xoffTotalUsed \in Nat /\ m.sharedPoolUsed \in Nat
      /\ \A c \in Classes : m.egressPoolUsed[c] \in Nat
  BY <1>1 DEF MmuType
<1>6. /\ \A j \in PortQueue : n.ingress_bytes[j]
           = IF i = j THEN m.ingress_bytes[j] + p.size ELSE m.ingress_bytes[j]
      /\ \A j \in PortQueue : n.egress_bytes[j]
           = IF o = j THEN m.egress_bytes[j] + p.size ELSE m.egress_bytes[j]
      /\ \A j \in PortQueue : n.xoffUsed[j]
           = IF i = j THEN m.xoffUsed[j] + d ELSE m.xoffUsed[j]
      /\ \A c \in Classes : n.egressPoolUsed[c]
           = IF p.type = c THEN m.egressPoolUsed[c] + p.size ELSE m.egressPoolUsed[c]
      /\ \A j \in PortQueue : n.paused[j]
           = IF i = j THEN m.paused[j] \/ n.xoffUsed[j] > 0 ELSE m.paused[j]
  BY <1>1, <1>2, <1>3 DEF MmuType, AdmittedCounters
<1>7. d \in Nat /\ d <= p.size
  BY <1>2, <1>3
<1> HIDE DEF i, o
<1>8. Holds(n, G)
  <2>1. IsFiniteSet(G)
    BY <1>1, FS_AddElement
  <2> QED
    BY <1>1, <1>3, <2>1 DEF Holds
<1>9. /\ \A j : From(H, j) \in SUBSET Packets /\ IsFiniteSet(From(H, j)) /\ p \notin From(H, j)
      /\ \A j : To(H, j) \in SUBSET Packets /\ IsFiniteSet(To(H, j)) /\ p \notin To(H, j)
      /\ \A c : OfClass(H, c) \in SUBSET Packets /\ IsFiniteSet(OfClass(H, c))
                /\ p \notin OfClass(H, c)
      /\ \A j : Lossless(H, j) \in SUBSET Packets /\ IsFiniteSet(Lossless(H, j))
                /\ p \notin Lossless(H, j)
      /\ H \in SUBSET Packets
  <2>1. /\ \A j : p \notin From(H, j)
        /\ \A j : p \notin To(H, j)
        /\ \A c : p \notin OfClass(H, c)
        /\ \A j : p \notin Lossless(H, j)
    BY DEF From, To, OfClass, Lossless
  <2> QED
    BY <1>1, <2>1, PartsFinite
<1>10. /\ Bytes(G) = Bytes(H) + p.size
       /\ \A j : Bytes(From(G, j))
                   = IF i = j THEN Bytes(From(H, j)) + p.size ELSE Bytes(From(H, j))
       /\ \A j : Bytes(To(G, j))
                   = IF o = j THEN Bytes(To(H, j)) + p.size ELSE Bytes(To(H, j))
       /\ \A c : Bytes(OfClass(G, c))
                   = IF p.type = c THEN Bytes(OfClass(H, c)) + p.size
                                   ELSE Bytes(OfClass(H, c))
       /\ \A j : Bytes(Lossless(G, j))
                   = IF i = j /\ p.type = LOSSLESS THEN Bytes(Lossless(H, j)) + p.size
                                                   ELSE Bytes(Lossless(H, j))
  <2>1. Bytes(G) = Bytes(H) + p.size
    BY <1>1, <1>2, <1>9, BytesAdd
  <2>2. \A j : Bytes(From(H, j) \cup {p}) = Bytes(From(H, j)) + p.size
    BY <1>2, <1>9, BytesAdd
  <2>3. \A j : Bytes(To(H, j) \cup {p}) = Bytes(To(H, j)) + p.size
    BY <1>2, <1>9, BytesAdd
  <2>4. \A c : Bytes(OfClass(H, c) \cup {p}) = Bytes(OfClass(H, c)) + p.size
    BY <1>2, <1>9, BytesAdd
  <2>5. \A j : Bytes(Lossless(H, j) \cup {p}) = Bytes(Lossless(H, j)) + p.size
    BY <1>2, <1>9, BytesAdd
  <2>6. /\ \A j : From(G, j) = IF i = j THEN From(H, j) \cup {p} ELSE From(H, j)
        /\ \A j : To(G, j) = IF o = j THEN To(H, j) \cup {p} ELSE To(H, j)
        /\ \A c : OfClass(G, c)
                    = IF p.type = c THEN OfClass(H, c) \cup {p} ELSE OfClass(H, c)
        /\ \A j : Lossless(G, j) = IF i = j /\ p.type = LOSSLESS
                                   THEN Lossless(H, j) \cup {p} ELSE Lossless(H, j)
    BY <1>1, PartsAfterAdd DEF i, o
  <2> HIDE DEF G
  <2> QED
    BY <2>1, <2>2, <2>3, <2>4, <2>5, <2>6
<1>11. \A j : Bytes(Lossless(H, j)) \in Nat
  BY <1>9, BytesType
<1>12. Lossless(H, i) \in SUBSET Lossless(G, i)
       /\ (p.type = LOSSLESS => p \in Lossless(G, i))
       /\ \A j : i # j => Lossless(G, j) = Lossless(H, j)
  BY <1>1, PartsAfterAdd DEF i, Lossless, OfClass, From
<1> HIDE DEF G
<1>13. BytesMatch(n, G)
  <2>1. n.totalUsed = Bytes(G)
    BY <1>1, <1>3, <1>10 DEF BytesMatch, AdmittedCounters
  <2>2. \A j \in PortQueue : n.ingress_bytes[j] = Bytes(From(G, j))
    BY <1>1, <1>6, <1>10 DEF BytesMatch
  <2>3. \A j \in PortQueue : n.egress_bytes[j] = Bytes(To(G, j))
    BY <1>1, <1>6, <1>10 DEF BytesMatch
  <2>4. \A c \in Classes : n.egressPoolUsed[c] = Bytes(OfClass(G, c))
    BY <1>1, <1>6, <1>10 DEF BytesMatch
  <2> QED
    BY <2>1, <2>2, <2>3, <2>4 DEF BytesMatch
<1>14. HeadroomFits(n, G)
  <2> SUFFICES ASSUME NEW j \in PortQueue
               PROVE  n.xoffUsed[j] <= Bytes(Lossless(G, j))
    BY DEF HeadroomFits
  <2>1. m.xoffUsed[j] <= Bytes(Lossless(H, j))
    BY <1>1 DEF HeadroomFits
  <2> QED
    BY <1>2, <1>3, <1>4, <1>6, <1>7, <1>10, <1>11, <2>1
<1>15. PoolsMatch(n)
  <2>1. \A j \in PortQueue : /\ SharedOf(m)[j] = m.ingress_bytes[j] - m.xoffUsed[j]
                             /\ SharedOf(m)[j] \in Nat
                             /\ SharedOf(n)[j] = n.ingress_bytes[j] - n.xoffUsed[j]
                             /\ SharedOf(n)[j] \in Nat
    BY <1>1, <1>8, <1>13, <1>14, SharedOfType
  <2>2. n.totalUsed = m.totalUsed + n.ingress_bytes[i] - m.ingress_bytes[i]
    BY <1>2, <1>3, <1>4, <1>5, <1>6 DEF AdmittedCounters
  <2>3. n.xoffTotalUsed = m.xoffTotalUsed + n.xoffUsed[i] - m.xoffUsed[i]
    BY <1>2, <1>3, <1>4, <1>5, <1>6, <1>7 DEF AdmittedCounters
  <2>4. n.sharedPoolUsed = m.sharedPoolUsed + SharedOf(n)[i] - SharedOf(m)[i]
    BY <1>2, <1>3, <1>4, <1>5, <1>6, <1>7, <2>1 DEF AdmittedCounters
  <2>5. n.totalIngressReservedUsed
          = Monus(m.totalIngressReservedUsed, GetIngressReservedUsed(m, i))
              + GetIngressReservedUsed(n, i)
    BY <1>3 DEF AdmittedCounters, i
  <2>6. \A j \in PortQueue \ {i} : /\ n.ingress_bytes[j] = m.ingress_bytes[j]
                                   /\ n.xoffUsed[j] = m.xoffUsed[j]
    BY <1>6
  <2> QED
    BY <1>1, <1>2, <1>3, <2>1, <2>2, <2>3, <2>4, <2>5, <2>6, PoolsFollow
<1>16. HeadroomLimited(n, G)
  <2> SUFFICES ASSUME NEW j \in PortQueue
               PROVE  \/ n.xoffUsed[j] <= xoff[j]
                      \/ n.xoffUsed[j] <= reserveIngress[j]
                      \/ \E q \in Lossless(G, j) : n.xoffUsed[j] <= q.size
    BY DEF HeadroomLimited
  <2>1. \/ m.xoffUsed[j] <= xoff[j]
        \/ m.xoffUsed[j] <= reserveIngress[j]
        \/ \E q \in Lossless(H, j) : m.xoffUsed[j] <= q.size
    BY <1>1 DEF HeadroomLimited
  <2>2. CASE i # j
    BY <1>6, <1>12, <2>1, <2>2
  <2>3. CASE i = j /\ d = 0
    <3>1. n.xoffUsed[j] = m.xoffUsed[j]
      BY <1>4, <1>6, <2>3
    <3> QED
      BY <1>12, <2>1, <2>3, <3>1
  <2>4. CASE i = j /\ d # 0
    <3>1. p.type = LOSSLESS /\ d = p.size /\ p \in Lossless(G, i)
      BY <1>3, <1>12, <2>4
    <3>2. n.xoffUsed[i] = m.xoffUsed[i] + p.size
      BY <1>2, <1>6, <3>1
    <3>3. CASE m.xoffUsed[i] = 0
      <4>1. n.xoffUsed[i] <= p.size
        BY <1>2, <3>2, <3>3
      <4> QED
        BY <2>4, <3>1, <4>1
    <3>4. CASE m.xoffUsed[i] # 0
      <4>1. \/ p.size + m.ingress_bytes[i] <= reserveIngress[i]
            \/ p.size + m.xoffUsed[i] <= xoff[i]
        BY <3>1, <3>4 DEF Admits, CheckIngressAdmission, CheckIngressLossless, i
      <4>2. m.xoffUsed[i] <= m.ingress_bytes[i]
        BY <1>1, <1>2, SharedOfType
      <4>3. xoff[i] \in Nat /\ reserveIngress[i] \in Nat
        BY <1>2, MmuConfiguration
      <4> QED
        BY <1>2, <1>4, <2>4, <3>2, <4>1, <4>2, <4>3
    <3> QED
      BY <3>3, <3>4
  <2> QED
    BY <2>2, <2>3, <2>4
<1>17. WithinPools(n)
  <2>1. /\ p.size + m.totalUsed <= bufferPool
        /\ bufferModel = "sonic" => p.size + m.egressPoolUsed[p.type] <= egressPool[p.type]
    BY <1>1, <1>2, AdmittedFits
  <2>2. n.totalUsed = m.totalUsed + p.size
    BY <1>3 DEF AdmittedCounters
  <2>3. n.totalUsed <= bufferPool
    BY <1>2, <1>5, <2>1, <2>2
  <2>4. bufferModel = "sonic" => \A c \in Classes : n.egressPoolUsed[c] <= egressPool[c]
    BY <1>1, <1>2, <1>5, <1>6, <2>1 DEF WithinPools
  <2> QED
    BY <2>3, <2>4 DEF WithinPools
<1>18. HeadroomPauses(n)
  BY <1>1, <1>4, <1>6 DEF HeadroomPauses
<1>19. FiltersBelow(n)
  <2>1. n.ingressLpf_bytes = m.ingressLpf_bytes /\ n.egressLpf_bytes = m.egressLpf_bytes
    BY <1>3 DEF AdmittedCounters
  <2>2. \A j \in PortQueue : /\ m.ingress_bytes[j] <= n.ingress_bytes[j]
                             /\ m.egress_bytes[j] <= n.egress_bytes[j]
    BY <1>2, <1>4, <1>6
  <2>3. \A a, b, c \in Nat : a <= b /\ b <= c => a <= c
    OBVIOUS
  <2>4. ASSUME OneClassPerPriority, NEW j \in PortQueue
        PROVE  /\ n.ingressLpf_bytes[j] <= n.ingress_bytes[j]
               /\ n.egressLpf_bytes[j] <= n.egress_bytes[j]
               /\ n.ingressLpf_bytes[j] = 0
                    \/ \E q \in DataPackets : q.qIndex = j[2] /\ q.type = LOSSLESS
               /\ n.egressLpf_bytes[j] = 0
                    \/ \E q \in DataPackets : q.qIndex = j[2] /\ q.type = LOSSY
    BY <1>1, <1>4, <2>1, <2>2, <2>3, <2>4 DEF FiltersBelow
  <2> QED
    BY <2>4 DEF FiltersBelow
<1>20. PausedOccupied(n)
  <2>1. n.ingress_bytes[i] > 0
    BY <1>2, <1>4, <1>6
  <2>2. \A j \in PortQueue \ {i} : /\ n.paused[j] = m.paused[j]
                                   /\ n.ingress_bytes[j] = m.ingress_bytes[j]
    BY <1>6
  <2> QED
    BY <1>1, <2>1, <2>2 DEF PausedOccupied
<1> QED
  BY <1>8, <1>13, <1>14, <1>15, <1>16, <1>17, <1>18, <1>19, <1>20 DEF Accounts, n, G
-------------------------------------------------------------------------------
(* Departure *)

\* Releasing a packet of the buffer preserves the invariant.
LEMMA ReleasePreserves ==
  ASSUME NEW m, NEW H, Accounts(m, H), NEW p \in H
  PROVE  Accounts(Released(m, p), H \ {p})
<1> DEFINE i == In(p)
           o == Out(p)
           n == Released(m, p)
           G == H \ {p}
           h == HeadroomReturned(m, p)
<1>1. /\ Holds(m, H) /\ BytesMatch(m, H) /\ HeadroomFits(m, H) /\ PoolsMatch(m)
      /\ HeadroomLimited(m, H) /\ WithinPools(m) /\ HeadroomPauses(m)
      /\ FiltersBelow(m) /\ PausedOccupied(m)
      /\ m \in MmuType /\ H \in SUBSET DataPackets /\ IsFiniteSet(H)
  BY DEF Accounts, Holds
<1>2. /\ p \in DataPackets /\ p \in Packets /\ i \in PortQueue /\ o \in PortQueue
      /\ p.type \in Classes /\ p.size \in Nat /\ p.size > 0
  BY <1>1, PacketFields DEF DataPackets
<1>3. Counted(m, p)
  BY CountedInBuffer
<1>4. /\ n \in MmuType /\ ReleasedCounters(n, m, p, h) /\ PausedAfterRelease(n, m, p)
  BY <1>1, <1>2, <1>3, ReleasedStep
<1>5. /\ h \in Nat /\ h <= p.size /\ h <= m.xoffUsed[i]
      /\ h # 0 => p.type = LOSSLESS
      /\ p.type = LOSSLESS => h = p.size \/ h = m.xoffUsed[i]
  BY <1>1, <1>2, HeadroomReturnedType
<1>6. p.size <= m.ingress_bytes[i] /\ p.size <= m.egress_bytes[o]
      /\ p.size <= m.egressPoolUsed[p.type] /\ p.size <= m.totalUsed
  BY <1>3 DEF Counted
<1> HIDE DEF n, h
<1>7. \A j \in PortQueue : /\ m.ingress_bytes[j] \in Nat /\ n.ingress_bytes[j] \in Nat
                           /\ m.egress_bytes[j] \in Nat /\ n.egress_bytes[j] \in Nat
                           /\ m.xoffUsed[j] \in Nat /\ n.xoffUsed[j] \in Nat
                           /\ m.ingressLpf_bytes[j] \in Nat /\ n.ingressLpf_bytes[j] \in Nat
                           /\ m.egressLpf_bytes[j] \in Nat /\ n.egressLpf_bytes[j] \in Nat
  BY <1>1, <1>4 DEF MmuType
<1>8. /\ m.totalUsed \in Nat /\ m.xoffTotalUsed \in Nat /\ m.sharedPoolUsed \in Nat
      /\ \A c \in Classes : m.egressPoolUsed[c] \in Nat
  BY <1>1 DEF MmuType
<1>9. /\ \A j \in PortQueue : n.ingress_bytes[j]
           = IF i = j THEN m.ingress_bytes[j] - p.size ELSE m.ingress_bytes[j]
      /\ \A j \in PortQueue : n.egress_bytes[j]
           = IF o = j THEN m.egress_bytes[j] - p.size ELSE m.egress_bytes[j]
      /\ \A j \in PortQueue : n.xoffUsed[j]
           = IF i = j THEN m.xoffUsed[j] - h ELSE m.xoffUsed[j]
      /\ \A c \in Classes : n.egressPoolUsed[c]
           = IF p.type = c THEN m.egressPoolUsed[c] - p.size ELSE m.egressPoolUsed[c]
  BY <1>1, <1>2, <1>4 DEF MmuType, ReleasedCounters
<1>10. /\ \A j \in PortQueue : n.ingressLpf_bytes[j]
            = IF i = j /\ p.type = LOSSLESS
              THEN Lpf(m.ingressLpf_bytes[j], n.ingress_bytes[j])
              ELSE m.ingressLpf_bytes[j]
       /\ \A j \in PortQueue : n.egressLpf_bytes[j]
            = IF o = j /\ p.type # LOSSLESS
              THEN Lpf(m.egressLpf_bytes[j], n.egress_bytes[j])
              ELSE m.egressLpf_bytes[j]
  BY <1>1, <1>2, <1>4 DEF MmuType, ReleasedCounters
<1>11. i[2] = p.qIndex /\ o[2] = p.qIndex
  BY DEF In, Out
<1>12. Holds(n, G)
  <2>1. IsFiniteSet(G)
    BY <1>1, FS_RemoveElement
  <2> QED
    BY <1>1, <1>4, <2>1 DEF Holds
<1> HIDE DEF i, o
<1>13. /\ H \in SUBSET Packets
       /\ \A j : From(H, j) \in SUBSET Packets /\ IsFiniteSet(From(H, j))
       /\ \A j : To(H, j) \in SUBSET Packets /\ IsFiniteSet(To(H, j))
       /\ \A c : OfClass(H, c) \in SUBSET Packets /\ IsFiniteSet(OfClass(H, c))
       /\ \A j : Lossless(H, j) \in SUBSET Packets /\ IsFiniteSet(Lossless(H, j))
  BY <1>1, PartsFinite
<1>14. /\ p \in From(H, i) /\ p \in To(H, o) /\ p \in OfClass(H, p.type)
       /\ p.type = LOSSLESS => p \in Lossless(H, i)
  BY DEF From, To, OfClass, Lossless, i, o
<1>15. /\ \A j : From(G, j) = IF i = j THEN From(H, j) \ {p} ELSE From(H, j)
       /\ \A j : To(G, j) = IF o = j THEN To(H, j) \ {p} ELSE To(H, j)
       /\ \A c : OfClass(G, c) = IF p.type = c THEN OfClass(H, c) \ {p} ELSE OfClass(H, c)
       /\ \A j : Lossless(G, j) = IF i = j /\ p.type = LOSSLESS
                                  THEN Lossless(H, j) \ {p} ELSE Lossless(H, j)
  BY <1>1, PartsAfterRemove DEF i, o
<1>16. ASSUME NEW S \in SUBSET Packets, IsFiniteSet(S), p \in S
       PROVE  /\ Bytes(S) \in Nat /\ Bytes(S \ {p}) \in Nat
              /\ Bytes(S \ {p}) = Bytes(S) - p.size
  <2>1. Bytes(S \ {p}) \in Nat /\ Bytes(S) = Bytes(S \ {p}) + p.size
    BY <1>16, BytesRemove
  <2>2. Bytes(S) \in Nat
    BY <1>16, BytesType
  <2> QED
    BY <1>2, <2>1, <2>2
<1>17. /\ Bytes(G) = Bytes(H) - p.size
       /\ Bytes(From(H, i) \ {p}) = Bytes(From(H, i)) - p.size
       /\ Bytes(To(H, o) \ {p}) = Bytes(To(H, o)) - p.size
       /\ Bytes(OfClass(H, p.type) \ {p}) = Bytes(OfClass(H, p.type)) - p.size
       /\ p.type = LOSSLESS
            => Bytes(Lossless(H, i) \ {p}) = Bytes(Lossless(H, i)) - p.size
  <2>1. Bytes(G) = Bytes(H) - p.size
    BY <1>1, <1>13, <1>16
  <2>2. Bytes(From(H, i) \ {p}) = Bytes(From(H, i)) - p.size
    BY <1>13, <1>14, <1>16
  <2>3. Bytes(To(H, o) \ {p}) = Bytes(To(H, o)) - p.size
    BY <1>13, <1>14, <1>16
  <2>4. Bytes(OfClass(H, p.type) \ {p}) = Bytes(OfClass(H, p.type)) - p.size
    BY <1>13, <1>14, <1>16
  <2>5. p.type = LOSSLESS => Bytes(Lossless(H, i) \ {p}) = Bytes(Lossless(H, i)) - p.size
    BY <1>13, <1>14, <1>16
  <2> QED
    BY <2>1, <2>2, <2>3, <2>4, <2>5
<1>18. \A j : Bytes(Lossless(H, j)) \in Nat
  BY <1>13, BytesType
<1> HIDE DEF G
<1>19. BytesMatch(n, G)
  <2>1. n.totalUsed = Bytes(G)
    BY <1>1, <1>4, <1>17 DEF BytesMatch, ReleasedCounters
  <2>2. \A j \in PortQueue : n.ingress_bytes[j] = Bytes(From(G, j))
    BY <1>1, <1>9, <1>15, <1>17 DEF BytesMatch
  <2>3. \A j \in PortQueue : n.egress_bytes[j] = Bytes(To(G, j))
    BY <1>1, <1>9, <1>15, <1>17 DEF BytesMatch
  <2>4. \A c \in Classes : n.egressPoolUsed[c] = Bytes(OfClass(G, c))
    BY <1>1, <1>9, <1>15, <1>17 DEF BytesMatch
  <2> QED
    BY <2>1, <2>2, <2>3, <2>4 DEF BytesMatch
<1>20. HeadroomFits(n, G)
  <2> SUFFICES ASSUME NEW j \in PortQueue
               PROVE  n.xoffUsed[j] <= Bytes(Lossless(G, j))
    BY DEF HeadroomFits
  <2>1. m.xoffUsed[j] <= Bytes(Lossless(H, j))
    BY <1>1 DEF HeadroomFits
  <2>2. CASE i = j /\ p.type = LOSSLESS
    <3>1. Bytes(Lossless(G, j)) = Bytes(Lossless(H, j)) - p.size
      BY <1>15, <1>17, <2>2
    <3>2. Bytes(Lossless(G, j)) \in Nat
      BY <1>13, <1>14, <1>15, <1>16, <2>2
    <3> QED
      BY <1>2, <1>5, <1>7, <1>9, <1>18, <2>1, <2>2, <3>1, <3>2
  <2>3. CASE ~(i = j /\ p.type = LOSSLESS)
    <3>1. n.xoffUsed[j] = m.xoffUsed[j]
      BY <1>5, <1>7, <1>9, <2>3
    <3> QED
      BY <1>15, <2>1, <2>3, <3>1
  <2> QED
    BY <2>2, <2>3
<1>21. PoolsMatch(n)
  <2>1. \A j \in PortQueue : /\ SharedOf(m)[j] = m.ingress_bytes[j] - m.xoffUsed[j]
                             /\ SharedOf(m)[j] \in Nat
                             /\ SharedOf(n)[j] = n.ingress_bytes[j] - n.xoffUsed[j]
                             /\ SharedOf(n)[j] \in Nat
    BY <1>1, <1>12, <1>19, <1>20, SharedOfType
  <2>2. n.totalUsed = m.totalUsed + n.ingress_bytes[i] - m.ingress_bytes[i]
    BY <1>2, <1>4, <1>7, <1>8, <1>9 DEF ReleasedCounters
  <2>3. n.xoffTotalUsed = m.xoffTotalUsed + n.xoffUsed[i] - m.xoffUsed[i]
    BY <1>2, <1>4, <1>5, <1>7, <1>8, <1>9 DEF ReleasedCounters
  <2>4. n.sharedPoolUsed = m.sharedPoolUsed + SharedOf(n)[i] - SharedOf(m)[i]
    BY <1>2, <1>4, <1>5, <1>7, <1>8, <1>9, <2>1 DEF ReleasedCounters
  <2>5. n.totalIngressReservedUsed
          = Monus(m.totalIngressReservedUsed, GetIngressReservedUsed(m, i))
              + GetIngressReservedUsed(n, i)
    BY <1>4 DEF ReleasedCounters, i
  <2>6. \A j \in PortQueue \ {i} : /\ n.ingress_bytes[j] = m.ingress_bytes[j]
                                   /\ n.xoffUsed[j] = m.xoffUsed[j]
    BY <1>9
  <2> QED
    BY <1>1, <1>2, <1>4, <2>1, <2>2, <2>3, <2>4, <2>5, <2>6, PoolsFollow
<1>22. HeadroomLimited(n, G)
  <2> SUFFICES ASSUME NEW j \in PortQueue
               PROVE  \/ n.xoffUsed[j] <= xoff[j]
                      \/ n.xoffUsed[j] <= reserveIngress[j]
                      \/ \E q \in Lossless(G, j) : n.xoffUsed[j] <= q.size
    BY DEF HeadroomLimited
  <2>1. \/ m.xoffUsed[j] <= xoff[j]
        \/ m.xoffUsed[j] <= reserveIngress[j]
        \/ \E q \in Lossless(H, j) : m.xoffUsed[j] <= q.size
    BY <1>1 DEF HeadroomLimited
  <2>2. xoff[j] \in Nat /\ reserveIngress[j] \in Nat
    BY MmuConfiguration
  <2>3. CASE ~(i = j /\ p.type = LOSSLESS)
    <3>1. n.xoffUsed[j] = m.xoffUsed[j]
      BY <1>5, <1>7, <1>9, <2>3
    <3> QED
      BY <1>15, <2>1, <2>3, <3>1
  <2>4. CASE i = j /\ p.type = LOSSLESS
    <3>1. n.xoffUsed[j] <= m.xoffUsed[j]
      BY <1>5, <1>7, <1>9, <2>4
    <3>2. CASE m.xoffUsed[j] <= xoff[j] \/ m.xoffUsed[j] <= reserveIngress[j]
      BY <1>7, <2>2, <3>1, <3>2
    <3>3. CASE m.xoffUsed[j] <= p.size
      <4>1. n.xoffUsed[j] = 0
        BY <1>2, <1>5, <1>7, <1>9, <2>4, <3>3
      <4> QED
        BY <2>2, <4>1
    <3>4. ASSUME NEW q \in Lossless(H, j), q # p, m.xoffUsed[j] <= q.size
          PROVE  \E r \in Lossless(G, j) : n.xoffUsed[j] <= r.size
      <4>1. q \in Lossless(G, j)
        BY <1>15, <3>4
      <4>2. q.size \in Nat
        BY <1>13, PacketFields
      <4>3. n.xoffUsed[j] <= q.size
        BY <1>7, <3>1, <3>4, <4>2
      <4> QED
        BY <4>1, <4>3
    <3> QED
      BY <2>1, <3>2, <3>3, <3>4
  <2> QED
    BY <2>3, <2>4
<1>23. WithinPools(n)
  <2>1. n.totalUsed <= m.totalUsed
    BY <1>2, <1>4, <1>8 DEF ReleasedCounters
  <2>2. \A c \in Classes : n.egressPoolUsed[c] <= m.egressPoolUsed[c]
    BY <1>2, <1>8, <1>9
  <2>3. \A c \in Classes : n.egressPoolUsed[c] \in Nat
    BY <1>4 DEF MmuType
  <2>4. n.totalUsed \in Nat /\ bufferPool \in Nat /\ \A c \in Classes : egressPool[c] \in Nat
    BY <1>4, MmuConfiguration DEF MmuType
  <2>5. n.totalUsed <= bufferPool
    BY <1>1, <1>8, <2>1, <2>4 DEF WithinPools
  <2>6. ASSUME bufferModel = "sonic", NEW c \in Classes
        PROVE  n.egressPoolUsed[c] <= egressPool[c]
    <3>1. m.egressPoolUsed[c] <= egressPool[c]
      BY <1>1, <2>6 DEF WithinPools
    <3> QED
      BY <1>8, <2>2, <2>3, <2>4, <3>1
  <2> QED
    BY <2>5, <2>6 DEF WithinPools
<1>24. HeadroomPauses(n)
  <2> SUFFICES ASSUME NEW j \in PortQueue, n.xoffUsed[j] > 0
               PROVE  n.paused[j]
    BY DEF HeadroomPauses
  <2>1. m.xoffUsed[j] > 0
    BY <1>5, <1>7, <1>9
  <2>2. m.paused[j]
    BY <1>1, <2>1 DEF HeadroomPauses
  <2> QED
    BY <1>4, <2>2 DEF PausedAfterRelease, i
<1>25. FiltersBelow(n)
  <2> SUFFICES ASSUME OneClassPerPriority, NEW j \in PortQueue
               PROVE  /\ n.ingressLpf_bytes[j] <= n.ingress_bytes[j]
                      /\ n.egressLpf_bytes[j] <= n.egress_bytes[j]
                      /\ n.ingressLpf_bytes[j] = 0
                           \/ \E q \in DataPackets : q.qIndex = j[2] /\ q.type = LOSSLESS
                      /\ n.egressLpf_bytes[j] = 0
                           \/ \E q \in DataPackets : q.qIndex = j[2] /\ q.type = LOSSY
    BY DEF FiltersBelow
  <2>1. /\ m.ingressLpf_bytes[j] <= m.ingress_bytes[j]
        /\ m.egressLpf_bytes[j] <= m.egress_bytes[j]
        /\ m.ingressLpf_bytes[j] = 0
             \/ \E q \in DataPackets : q.qIndex = j[2] /\ q.type = LOSSLESS
        /\ m.egressLpf_bytes[j] = 0
             \/ \E q \in DataPackets : q.qIndex = j[2] /\ q.type = LOSSY
    BY <1>1 DEF FiltersBelow
  <2>2. \A q \in DataPackets : q.qIndex = p.qIndex => q.type = p.type
    BY <1>2 DEF OneClassPerPriority
  <2>3. p.type # LOSSLESS => p.type = LOSSY
    BY <1>2 DEF Classes
  <2>4. LOSSLESS # LOSSY
    BY DEF LOSSLESS, LOSSY
  <2>5. /\ n.ingressLpf_bytes[j] <= n.ingress_bytes[j]
        /\ n.ingressLpf_bytes[j] = 0
             \/ \E q \in DataPackets : q.qIndex = j[2] /\ q.type = LOSSLESS
    <3>1. CASE i # j
      BY <1>9, <1>10, <2>1, <3>1
    <3>2. CASE i = j /\ p.type = LOSSLESS
      <4>1. n.ingressLpf_bytes[j] = Lpf(m.ingressLpf_bytes[j], n.ingress_bytes[j])
        BY <1>10, <3>2
      <4>2. n.ingressLpf_bytes[j] <= n.ingress_bytes[j]
        BY <1>7, <4>1, LpfType
      <4> QED
        BY <1>2, <1>11, <3>2, <4>2
    <3>3. CASE i = j /\ p.type # LOSSLESS
      <4>1. m.ingressLpf_bytes[j] = 0
        BY <1>11, <2>1, <2>2, <3>3
      <4>2. n.ingressLpf_bytes[j] = 0
        BY <1>10, <3>3, <4>1
      <4> QED
        BY <1>7, <4>2
    <3> QED
      BY <3>1, <3>2, <3>3
  <2>6. /\ n.egressLpf_bytes[j] <= n.egress_bytes[j]
        /\ n.egressLpf_bytes[j] = 0
             \/ \E q \in DataPackets : q.qIndex = j[2] /\ q.type = LOSSY
    <3>1. CASE o # j
      BY <1>9, <1>10, <2>1, <3>1
    <3>2. CASE o = j /\ p.type # LOSSLESS
      <4>1. n.egressLpf_bytes[j] = Lpf(m.egressLpf_bytes[j], n.egress_bytes[j])
        BY <1>10, <3>2
      <4>2. n.egressLpf_bytes[j] <= n.egress_bytes[j]
        BY <1>7, <4>1, LpfType
      <4> QED
        BY <1>2, <1>11, <2>3, <3>2, <4>2
    <3>3. CASE o = j /\ p.type = LOSSLESS
      <4>1. m.egressLpf_bytes[j] = 0
        BY <1>11, <2>1, <2>2, <2>4, <3>3
      <4>2. n.egressLpf_bytes[j] = 0
        BY <1>10, <3>3, <4>1
      <4> QED
        BY <1>7, <4>2
    <3> QED
      BY <3>1, <3>2, <3>3
  <2> QED
    BY <2>5, <2>6
<1>26. PausedOccupied(n)
  <2> SUFFICES ASSUME bufferModel = "sonic" \/ OneClassPerPriority,
                      NEW j \in PortQueue, n.paused[j], xon[j] > 0
               PROVE  n.ingress_bytes[j] > 0
    BY DEF PausedOccupied
  <2>1. CASE i # j
    <3>1. m.paused[j] /\ n.ingress_bytes[j] = m.ingress_bytes[j]
      BY <1>4, <1>9, <2>1 DEF PausedAfterRelease, i
    <3> QED
      BY <1>1, <3>1 DEF PausedOccupied
  <2>2. CASE i = j /\ n.xoffUsed[j] > 0
    <3>1. n.xoffUsed[j] <= n.ingress_bytes[j]
      BY <1>12, <1>19, <1>20, SharedOfType
    <3> QED
      BY <1>7, <2>2, <3>1
  <2>3. CASE i = j /\ ~(n.xoffUsed[j] > 0)
    <3>1. n.xoffUsed[j] = 0
      BY <1>7, <2>3
    <3>2. ~(LosslessOccupancy(n, j) < xon[j])
      BY <1>4, <2>3, <3>1 DEF PausedAfterRelease, BelowXon, i
    <3>3. xon[j] \in Nat
      BY MmuConfiguration
    <3>4. LosslessOccupancy(n, j) \in Nat /\ LosslessOccupancy(n, j) <= n.ingress_bytes[j]
      <4>1. CASE bufferModel = "sonic"
        BY <1>7, <4>1 DEF LosslessOccupancy
      <4>2. CASE bufferModel # "sonic"
        <5>1. n.ingressLpf_bytes[j] <= n.ingress_bytes[j]
          BY <1>25, <4>2 DEF FiltersBelow
        <5> QED
          BY <1>7, <4>2, <5>1 DEF LosslessOccupancy
      <4> QED
        BY <4>1, <4>2
    <3> QED
      BY <1>7, <3>2, <3>3, <3>4
  <2> QED
    BY <2>1, <2>2, <2>3
<1> QED
  BY <1>12, <1>19, <1>20, <1>21, <1>22, <1>23, <1>24, <1>25, <1>26 DEF Accounts, n, G
-------------------------------------------------------------------------------
(* The invariant of the switch buffer *)

\* The checks alone, on a packet that is then dropped, preserve the invariant:
\* all they leave behind is which queues are congested.
LEMMA ChecksPreserve ==
  ASSUME NEW m, NEW H, Accounts(m, H), NEW p \in DataPackets
  PROVE  Accounts(AfterChecks(m, p), H)
<1> DEFINE n == AfterChecks(m, p)
<1>1. m \in MmuType /\ p \in Packets
  BY DEF Accounts, Holds, DataPackets
<1>2. n \in MmuType /\ SameCounters(n, m)
  BY <1>1, AfterChecksCounters
<1> HIDE DEF n
<1>3. Holds(n, H) /\ BytesMatch(n, H) /\ HeadroomFits(n, H)
  BY <1>2 DEF Accounts, Holds, BytesMatch, HeadroomFits, SameCounters
<1>4. PoolsMatch(n)
  <2>1. SharedOf(n) = SharedOf(m)
    BY <1>2 DEF SharedOf, SameCounters
  <2>2. ReservedOf(n) = ReservedOf(m)
    BY <1>2 DEF ReservedOf, GetIngressReservedUsed, SameCounters
  <2> QED
    BY <1>2, <2>1, <2>2 DEF Accounts, PoolsMatch, SameCounters
<1>5. HeadroomLimited(n, H) /\ WithinPools(n) /\ HeadroomPauses(n)
  BY <1>2 DEF Accounts, HeadroomLimited, WithinPools, HeadroomPauses, SameCounters
<1>6. FiltersBelow(n) /\ PausedOccupied(n)
  BY <1>2 DEF Accounts, FiltersBelow, PausedOccupied, SameCounters
<1> QED
  BY <1>3, <1>4, <1>5, <1>6 DEF Accounts, n

\* Every step of the switch buffer preserves the invariant.
LEMMA StepPreserves == Inv /\ [Next]_vars => Inv'
<1> SUFFICES ASSUME Accounts(mmu, held), [Next]_vars
             PROVE  Accounts(mmu', held')
  BY DEF Inv
<1>1. ASSUME NEW p \in DataPackets, Admit(p)
      PROVE  Accounts(mmu', held')
  BY <1>1, AdmitPreserves DEF Admit
<1>2. ASSUME NEW p \in DataPackets, Drop(p)
      PROVE  Accounts(mmu', held')
  BY <1>2, ChecksPreserve DEF Drop
<1>3. ASSUME NEW p \in DataPackets, Release(p)
      PROVE  Accounts(mmu', held')
  BY <1>3, ReleasePreserves DEF Release
<1>4. ASSUME NEW p \in DataPackets, CutThrough(p)
      PROVE  Accounts(mmu', held')
  <2>1. Accounts(Admitted(mmu, p), held \cup {p})
    BY <1>4, AdmitPreserves DEF CutThrough
  <2>2. Accounts(Released(Admitted(mmu, p), p), (held \cup {p}) \ {p})
    BY <2>1, ReleasePreserves
  <2>3. (held \cup {p}) \ {p} = held
    BY <1>4 DEF CutThrough
  <2>4. Accounts(Released(Admitted(mmu, p), p), held)
    BY <2>2, <2>3
  <2> QED
    BY <1>4, <2>4 DEF CutThrough
<1>5. CASE UNCHANGED vars
  BY <1>5 DEF vars
<1> QED
  BY <1>1, <1>2, <1>3, <1>4, <1>5 DEF Next

\* The counters account for the buffer in every state of every configuration.
THEOREM InvHolds == Spec => []Inv
<1>1. Init => Inv
  BY InitAccounts DEF Init, Inv
<1> QED
  BY <1>1, StepPreserves, PTL DEF Spec

-------------------------------------------------------------------------------
(* What it implies *)

\* Type correctness: no counter, guarded or not, is ever subtracted below zero.
THEOREM TypeCorrect == Spec => []TypeOK
<1>1. Inv => TypeOK
  BY DEF Inv, Accounts, Holds, TypeOK, DataPackets
<1> QED
  BY <1>1, InvHolds, PTL

\* The byte counters say exactly what the buffer holds.
THEOREM CountersCorrect == Spec => []CountersMatchBuffer
<1>1. Inv => CountersMatchBuffer
  BY DEF Inv, Accounts, BytesMatch, CountersMatchBuffer
<1> QED
  BY <1>1, InvHolds, PTL

\* Headroom, shared pool and reservations are the sums of their queues' parts.
THEOREM PoolsCorrect == Spec => []PoolsPartitionBuffer
<1>1. Inv => PoolsPartitionBuffer
  BY DEF Inv, Accounts, PoolsMatch, PoolsPartitionBuffer
<1> QED
  BY <1>1, InvHolds, PTL

\* Headroom is returned no later than the lossless packets it was charged for.
THEOREM HeadroomCorrect == Spec => []HeadroomIsLossless
<1>1. Inv => HeadroomIsLossless
  BY DEF Inv, Accounts, HeadroomFits, Lossless, HeadroomIsLossless
<1> QED
  BY <1>1, InvHolds, PTL

\* A queue exceeds its headroom limit by its reservation or its first packet only.
THEOREM HeadroomLimitCorrect == Spec => []HeadroomBounded
<1>1. Inv => HeadroomBounded
  BY DEF Inv, Accounts, HeadroomLimited, Lossless, HeadroomBounded
<1> QED
  BY <1>1, InvHolds, PTL

\* The chip's buffer and the enforced egress pools are never overrun.
THEOREM NoOverrun == Spec => []BufferNeverOverrun
<1>1. Inv => BufferNeverOverrun
  BY DEF Inv, Accounts, WithinPools, BufferNeverOverrun
<1> QED
  BY <1>1, InvHolds, PTL

\* Whatever uses headroom is paused.
THEOREM HeadroomPaused == Spec => []HeadroomMeansPaused
<1>1. Inv => HeadroomMeansPaused
  BY DEF Inv, Accounts, HeadroomPauses, HeadroomMeansPaused
<1> QED
  BY <1>1, InvHolds, PTL

\* A queue whose sender is paused holds a packet, whose departure is the next
\* occasion to resume the sender.
THEOREM NoForgottenPause == Spec => []PausedMeansOccupied
<1>1. Inv => PausedMeansOccupied
  <2> SUFFICES ASSUME Inv, bufferModel = "sonic" \/ OneClassPerPriority,
                      NEW i \in PortQueue, mmu.paused[i], xon[i] > 0
               PROVE  \E p \in held : In(p) = i
    BY DEF PausedMeansOccupied
  <2>1. mmu.ingress_bytes[i] > 0
    BY DEF Inv, Accounts, PausedOccupied
  <2>2. mmu.ingress_bytes[i] = Bytes(From(held, i))
    BY DEF Inv, Accounts, BytesMatch
  <2>3. From(held, i) # {}
    <3>1. Bytes({}) = 0
      BY TotalEmpty DEF Bytes
    <3> QED
      BY <2>1, <2>2, <3>1
  <2> QED
    BY <2>3 DEF From
<1> QED
  BY <1>1, InvHolds, PTL

\* Reverie's filters stay below what they filter.
THEOREM FiltersCorrect == Spec => []FilteredIsHeld
<1>1. Inv => FilteredIsHeld
  BY DEF Inv, Accounts, BytesMatch, FiltersBelow, FilteredIsHeld
<1> QED
  BY <1>1, InvHolds, PTL

-------------------------------------------------------------------------------
(* The congested queues *)

\* n has the record of congested queues of m.
SameCongestion(n, m) ==
  /\ n.NofPIngress = m.NofPIngress /\ n.congestedIngress = m.congestedIngress
  /\ n.NofPEgress = m.NofPEgress /\ n.congestedEgress = m.congestedEgress

\* One queue has reported another level since m, or none has.
Reports(n, m) ==
  \/ SameCongestion(n, m)
  \/ /\ \E i \in PortQueue, level \in Nat :
          /\ n.NofPIngress = [m.NofPIngress EXCEPT ![i[2]] = @ + level - m.congestedIngress[i]]
          /\ n.congestedIngress = [m.congestedIngress EXCEPT ![i] = level]
     /\ n.NofPEgress = m.NofPEgress /\ n.congestedEgress = m.congestedEgress
  \/ /\ \E i \in PortQueue, level \in Nat :
          /\ n.NofPEgress = [m.NofPEgress EXCEPT ![i[2]] = @ + level - m.congestedEgress[i]]
          /\ n.congestedEgress = [m.congestedEgress EXCEPT ![i] = level]
     /\ n.NofPIngress = m.NofPIngress /\ n.congestedIngress = m.congestedIngress

\* setCongested of an ingress queue is one report, whatever other counters it finds.
LEMMA SetCongestedIngressReports ==
  ASSUME NEW m \in MmuType, NEW i \in PortQueue
  PROVE  Reports(setCongestedIngress(m, i), m)
<1> DEFINE level == Saturation(m.ingressLpf_bytes[i])
           n == setCongestedIngress(m, i)
<1>1. level \in Nat
  BY MmuConfiguration DEF MmuType, Saturation, Smaller
<1>2. /\ n.NofPIngress = [m.NofPIngress EXCEPT ![i[2]] = @ + level - m.congestedIngress[i]]
      /\ n.congestedIngress = [m.congestedIngress EXCEPT ![i] = level]
      /\ n.NofPEgress = m.NofPEgress /\ n.congestedEgress = m.congestedEgress
  BY DEF setCongestedIngress, MmuType
<1> HIDE DEF level, n
<1> QED
  BY <1>1, <1>2 DEF Reports, n

\* So is that of an egress queue.
LEMMA SetCongestedEgressReports ==
  ASSUME NEW m \in MmuType, NEW i \in PortQueue
  PROVE  Reports(setCongestedEgress(m, i), m)
<1> DEFINE level == Saturation(m.egressLpf_bytes[i])
           n == setCongestedEgress(m, i)
<1>1. level \in Nat
  BY MmuConfiguration DEF MmuType, Saturation, Smaller
<1>2. /\ n.NofPEgress = [m.NofPEgress EXCEPT ![i[2]] = @ + level - m.congestedEgress[i]]
      /\ n.congestedEgress = [m.congestedEgress EXCEPT ![i] = level]
      /\ n.NofPIngress = m.NofPIngress /\ n.congestedIngress = m.congestedIngress
  BY DEF setCongestedEgress, MmuType
<1> HIDE DEF level, n
<1> QED
  BY <1>1, <1>2 DEF Reports, n

\* The admission checks are at most one report.
LEMMA AfterChecksReports ==
  ASSUME NEW m \in MmuType, NEW p \in Packets
  PROVE  Reports(AfterChecks(m, p), m)
<1>1. Reports(m, m)
  BY DEF Reports, SameCongestion
<1> QED
  BY <1>1, PacketFields, SetCongestedIngressReports, SetCongestedEgressReports
     DEF AfterChecks

\* Counting a packet is at most one report; it comes after the bytes are counted,
\* and reads the filter, which only departures change.
LEMMA CountIngressReports ==
  ASSUME NEW m \in MmuType, NEW p \in Packets
  PROVE  Reports(CountIngress(m, p), m)
<1> DEFINE i == In(p)
           old == GetIngressReservedUsed(m, i)
           new == Smaller(m.ingress_bytes[i] + p.size, reserveIngress[i])
           bytes == [m.ingress_bytes EXCEPT ![i] = @ + p.size]
           total == m.totalUsed + p.size
           reserved == Monus(m.totalIngressReservedUsed, old) + new
           shared == IF p.type = LOSSLESS THEN m.sharedPoolUsed + p.size
                                          ELSE m.sharedPoolUsed
           counted == [m EXCEPT !.ingress_bytes = bytes, !.totalUsed = total,
                                !.totalIngressReservedUsed = reserved,
                                !.sharedPoolUsed = shared]
           level == Saturation(counted.ingressLpf_bytes[i])
           n == setCongestedIngress(counted, i)
<1>1. CountIngress(m, p) = IF bufferModel = "reverie" /\ p.type = LOSSLESS
                           THEN n ELSE counted
  BY DEF CountIngress
<1>2. i \in PortQueue
  BY PacketFields
<1> HIDE DEF i, bytes, total, shared, reserved
<1>3. /\ SameCongestion(counted, m)
      /\ counted.ingressLpf_bytes = m.ingressLpf_bytes
  BY DEF SameCongestion, MmuType
<1>4. level \in Nat
  <2>1. m.ingressLpf_bytes[i] \in Nat
    BY <1>2 DEF MmuType
  <2> QED
    BY <1>3, <2>1, MmuConfiguration DEF Saturation, Smaller
<1>5. /\ n.NofPIngress = [counted.NofPIngress EXCEPT ![i[2]] = @ + level - counted.congestedIngress[i]]
      /\ n.congestedIngress = [counted.congestedIngress EXCEPT ![i] = level]
      /\ n.NofPEgress = counted.NofPEgress /\ n.congestedEgress = counted.congestedEgress
  BY DEF setCongestedIngress, MmuType
<1> HIDE DEF level, n, counted
<1> QED
  BY <1>1, <1>2, <1>3, <1>4, <1>5 DEF Reports, SameCongestion

\* Charging the headroom reports nothing more.
LEMMA UpdateIngressReports ==
  ASSUME NEW m \in MmuType, NEW p \in Packets
  PROVE  Reports(UpdateIngressAdmission(m, p), m)
<1> DEFINE c == CountIngress(m, p)
<1>1. c \in MmuType /\ Reports(c, m)
  BY CountIngressCounters, CountIngressReports
<1>2. SameCongestion(UpdateIngressAdmission(m, p), c)
  <2> SUFFICES SameCongestion(IF EntersHeadroom(c, p)
                              THEN [c EXCEPT !.xoffUsed[In(p)] = @ + p.size,
                                             !.xoffTotalUsed = @ + p.size,
                                             !.sharedPoolUsed = @ - p.size]
                              ELSE c, c)
    BY DEF UpdateIngressAdmission
  <2> HIDE DEF c
  <2> QED
    BY <1>1 DEF SameCongestion, MmuType
<1> HIDE DEF c
<1> QED
  BY <1>1, <1>2 DEF Reports, SameCongestion

\* Nothing else of an admission reports.
LEMMA AdmittedReports ==
  ASSUME NEW m \in MmuType, NEW p \in Packets
  PROVE  SameCongestion(Admitted(m, p), UpdateIngressAdmission(AfterChecks(m, p), p))
<1> DEFINE u == UpdateIngressAdmission(AfterChecks(m, p), p)
           e == UpdateEgressAdmission(u, p)
<1>1. u \in MmuType
  BY AfterChecksCounters, UpdateIngressAdmissionCounters
<1>2. SameCongestion(PauseIfNeeded(e, In(p)), u)
  <2> HIDE DEF u
  <2> QED
    BY <1>1 DEF PauseIfNeeded, UpdateEgressAdmission, SameCongestion, MmuType
<1> QED
  BY <1>2 DEF Admitted

\* A departure is at most one report, by the threshold a resume is decided with.
LEMMA ReleasedReports ==
  ASSUME NEW m \in MmuType, NEW p \in Packets, Counted(m, p)
  PROVE  Reports(Released(m, p), m)
<1> DEFINE r == RemoveFromIngressAdmission(m, p)
           e == RemoveFromEgressAdmission(r, p)
           computed == bufferModel = "reverie" /\ e.paused[In(p)] /\ e.xoffUsed[In(p)] = 0
                         /\ ~BelowXon(e, In(p))
           seen == IF computed THEN setCongestedIngress(e, In(p)) ELSE e
           n == [seen EXCEPT !.paused[In(p)] = @ /\ ~CheckShouldResume(e, In(p))]
<1>1. r \in MmuType /\ SameCongestion(r, m)
  <2>1. SameCongestion(r, m)
    BY DEF RemoveFromIngressAdmission, UncountIngress, LeaveHeadroom, SameCongestion, MmuType
  <2> QED
    BY <2>1, RemoveFromIngressCounters
<1>2. e \in MmuType /\ SameCongestion(e, r)
  <2>1. r \in MmuType /\ IngressRemoved(r, m, p, HeadroomReturned(m, p))
    BY RemoveFromIngressCounters
  <2>2. HeadroomReturned(m, p) \in Nat /\ (HeadroomReturned(m, p) # 0 => p.type = LOSSLESS)
    BY HeadroomReturnedType
  <2>3. p.size \in Nat /\ m.sharedPoolUsed \in Nat
    BY PacketFields DEF MmuType
  <2> HIDE DEF r
  <2>4. p.size <= r.egress_bytes[Out(p)] /\ p.size <= r.egressPoolUsed[p.type]
    BY <2>1 DEF IngressRemoved, Counted
  <2>5. p.type # LOSSLESS => p.size <= r.sharedPoolUsed
    BY <2>1, <2>2, <2>3 DEF IngressRemoved, Counted
  <2>6. e \in MmuType
    BY <2>1, <2>4, <2>5, RemoveFromEgressCounters
  <2>7. SameCongestion(e, r)
    BY <2>1 DEF RemoveFromEgressAdmission, SameCongestion, MmuType
  <2> QED
    BY <2>6, <2>7
<1>3. Released(m, p) = n
  BY DEF Released, ResumeIfPossible
<1>4. seen \in MmuType /\ Reports(seen, e)
  <2>1. Reports(e, e)
    BY DEF Reports, SameCongestion
  <2> HIDE DEF e
  <2> QED
    BY <1>2, <2>1, PacketFields, SetCongestedIngressCounters, SetCongestedIngressReports
<1> HIDE DEF r, e, seen
<1>5. SameCongestion(n, seen)
  BY <1>4 DEF SameCongestion, MmuType
<1> HIDE DEF n
<1>6. SameCongestion(e, m)
  BY <1>1, <1>2 DEF SameCongestion
<1>7. Reports(seen, m)
  BY <1>4, <1>6 DEF Reports, SameCongestion
<1>8. Reports(n, m)
  BY <1>5, <1>7 DEF Reports, SameCongestion
<1> QED
  BY <1>3, <1>8

\* The sums of all priorities are those of the levels last reported.
Summed(sum, level) == \A q \in Queues : sum[q] = Total(Ports \X {q}, level)

Congestion(m) ==
  Summed(m.NofPIngress, m.congestedIngress) /\ Summed(m.NofPEgress, m.congestedEgress)

\* Replacing one level in the sum of its priority keeps the sums.
LEMMA SummedFollows ==
  ASSUME NEW sum \in [Queues -> Int], NEW level \in [PortQueue -> Nat],
         Summed(sum, level), NEW i \in PortQueue, NEW l \in Nat
  PROVE  Summed([sum EXCEPT ![i[2]] = @ + l - level[i]], [level EXCEPT ![i] = l])
<1> DEFINE sums == [sum EXCEPT ![i[2]] = @ + l - level[i]]
           levels == [level EXCEPT ![i] = l]
<1> SUFFICES ASSUME NEW q \in Queues
             PROVE  sums[q] = Total(Ports \X {q}, levels)
  BY DEF Summed
<1>1. /\ IsFiniteSet(Ports \X {q}) /\ Ports \X {q} \subseteq PortQueue
      /\ i \in PortQueue /\ i[2] \in Queues
      /\ \A x \in Ports \X {q} : x[2] = q
      /\ i[2] = q => i \in Ports \X {q}
  <2>1. IsFiniteSet(Ports) /\ IsFiniteSet({q})
    BY MmuConfiguration, FS_Singleton
  <2> QED
    BY <2>1, FS_Product DEF PortQueue
<1>2. \A x \in Ports \X {q} : level[x] \in Nat /\ levels[x] \in Nat
  BY <1>1
<1>3. /\ Total(Ports \X {q}, level) \in Nat /\ Total(Ports \X {q}, levels) \in Nat
      /\ sum[q] = Total(Ports \X {q}, level)
      /\ levels[i] = l /\ level[i] \in Nat
  BY <1>1, <1>2, TotalType DEF Summed
<1>4. CASE i[2] = q
  <2>1. \A x \in Ports \X {q} \ {i} : levels[x] = level[x]
    BY <1>1
  <2>2. Total(Ports \X {q}, levels) + level[i] = Total(Ports \X {q}, level) + levels[i]
    <3> HIDE DEF levels
    <3> QED
      BY <1>1, <1>2, <1>4, <2>1, TotalChange
  <2>3. sums[q] = sum[q] + l - level[i]
    BY <1>4
  <2> HIDE DEF sums, levels
  <2> QED
    BY <1>3, <2>2, <2>3
<1>5. CASE i[2] # q
  <2>1. \A x \in Ports \X {q} : levels[x] = level[x]
    BY <1>1, <1>5
  <2>2. Total(Ports \X {q}, levels) = Total(Ports \X {q}, level)
    BY <2>1, TotalSame
  <2> QED
    BY <1>3, <1>5, <2>2
<1> QED
  BY <1>4, <1>5

\* So does one report of an operation.
LEMMA ReportFollows ==
  ASSUME NEW m \in MmuType, Congestion(m), NEW n, Reports(n, m)
  PROVE  Congestion(n)
<1>1. /\ m.NofPIngress \in [Queues -> Int] /\ m.congestedIngress \in [PortQueue -> Nat]
      /\ m.NofPEgress \in [Queues -> Int] /\ m.congestedEgress \in [PortQueue -> Nat]
  BY DEF MmuType
<1>2. CASE SameCongestion(n, m)
  BY <1>2 DEF SameCongestion, Congestion
<1>3. ASSUME NEW i \in PortQueue, NEW level \in Nat,
             n.NofPIngress = [m.NofPIngress EXCEPT ![i[2]] = @ + level - m.congestedIngress[i]],
             n.congestedIngress = [m.congestedIngress EXCEPT ![i] = level],
             n.NofPEgress = m.NofPEgress, n.congestedEgress = m.congestedEgress
      PROVE  Congestion(n)
  BY <1>1, <1>3, SummedFollows DEF Congestion
<1>4. ASSUME NEW i \in PortQueue, NEW level \in Nat,
             n.NofPEgress = [m.NofPEgress EXCEPT ![i[2]] = @ + level - m.congestedEgress[i]],
             n.congestedEgress = [m.congestedEgress EXCEPT ![i] = level],
             n.NofPIngress = m.NofPIngress, n.congestedIngress = m.congestedIngress
      PROVE  Congestion(n)
  BY <1>1, <1>4, SummedFollows DEF Congestion
<1> QED
  BY <1>2, <1>3, <1>4 DEF Reports

\* A drop keeps the sums: its checks report at most once.
LEMMA ChecksCongestion ==
  ASSUME NEW m \in MmuType, Congestion(m), NEW p \in Packets
  PROVE  Congestion(AfterChecks(m, p))
BY AfterChecksReports, ReportFollows

\* An admission keeps the sums: the checks, then the accounting, report at most
\* once each.
LEMMA AdmittedCongestion ==
  ASSUME NEW m \in MmuType, Congestion(m), NEW p \in Packets
  PROVE  Congestion(Admitted(m, p))
<1> DEFINE a == AfterChecks(m, p)
           u == UpdateIngressAdmission(a, p)
<1>1. a \in MmuType /\ Congestion(a)
  BY AfterChecksCounters, ChecksCongestion
<1>2. Reports(u, a) /\ SameCongestion(Admitted(m, p), u)
  BY <1>1, UpdateIngressReports, AdmittedReports
<1> HIDE DEF a, u
<1>3. Congestion(u)
  BY <1>1, <1>2, ReportFollows
<1> QED
  BY <1>2, <1>3 DEF SameCongestion, Congestion

\* So does a departure.
LEMMA ReleasedCongestion ==
  ASSUME NEW m \in MmuType, Congestion(m), NEW p \in Packets, Counted(m, p)
  PROVE  Congestion(Released(m, p))
BY ReleasedReports, ReportFollows

\* The sums of congested queues stay true to what the queues have reported, in
\* whatever order thresholds are computed.
THEOREM CongestionCorrect == Spec => []CongestionCounted
<1> DEFINE Summing == Congestion(mmu)
<1>1. Init => Summing
  <2>1. \A q \in Queues : Total(Ports \X {q}, [i \in PortQueue |-> 0]) = 0
    BY TotalZero DEF PortQueue
  <2> QED
    BY <2>1 DEF Init, NewMmu, Congestion, Summed
<1>2. Inv /\ Summing /\ [Next]_vars => Summing'
  <2> SUFFICES ASSUME Inv, Congestion(mmu), [Next]_vars
               PROVE  Congestion(mmu')
    OBVIOUS
  <2>1. mmu \in MmuType /\ DataPackets \subseteq Packets
    BY DEF Inv, Accounts, Holds, DataPackets
  <2>2. ASSUME NEW p \in DataPackets, Admit(p)
        PROVE  Congestion(mmu')
    BY <2>1, <2>2, AdmittedCongestion DEF Admit
  <2>3. ASSUME NEW p \in DataPackets, Drop(p)
        PROVE  Congestion(mmu')
    BY <2>1, <2>3, ChecksCongestion DEF Drop
  <2>4. ASSUME NEW p \in DataPackets, Release(p)
        PROVE  Congestion(mmu')
    <3>1. Counted(mmu, p)
      BY <2>4, CountedInBuffer DEF Inv, Release
    <3> QED
      BY <2>1, <2>4, <3>1, ReleasedCongestion DEF Release
  <2>5. ASSUME NEW p \in DataPackets, CutThrough(p)
        PROVE  Congestion(mmu')
    <3>1. Accounts(Admitted(mmu, p), held \cup {p})
      BY <2>5, AdmitPreserves DEF CutThrough, Inv
    <3>2. Admitted(mmu, p) \in MmuType /\ Counted(Admitted(mmu, p), p)
      BY <3>1, CountedInBuffer DEF Accounts, Holds
    <3>3. Congestion(Admitted(mmu, p))
      BY <2>1, AdmittedCongestion
    <3>4. Congestion(Released(Admitted(mmu, p), p))
      BY <2>1, <3>2, <3>3, ReleasedCongestion
    <3> QED
      BY <2>5, <3>4 DEF CutThrough
  <2>6. CASE UNCHANGED vars
    BY <2>6 DEF vars
  <2> QED
    BY <2>2, <2>3, <2>4, <2>5, <2>6 DEF Next
<1>3. Summing => CongestionCounted
  BY DEF Congestion, Summed, CongestionCounted
<1> HIDE DEF Summing
<1> QED
  BY <1>1, <1>2, <1>3, InvHolds, PTL DEF Spec

-------------------------------------------------------------------------------
(* Lossless packets *)

\* The limits of the configuration are natural numbers.
LEMMA LimitTypes ==
  /\ xoffTotal \in Nat /\ totalIngressReserved \in Nat
  /\ ingressPool \in Nat /\ bufferPool \in Nat /\ Uint64 \in Nat \ {0}
  /\ \A i \in PortQueue : xoff[i] \in Nat /\ reserveIngress[i] \in Nat
<1>1. \A i \in PortQueue : xoff[i] \in Nat /\ reserveIngress[i] \in Nat
  BY MmuConfiguration
<1> QED
  BY <1>1, MmuConfiguration, PortQueueFinite, TotalType DEF xoffTotal, totalIngressReserved

\* What is used of the reservations never exceeds them.
LEMMA ReservedWithin ==
  ASSUME NEW m \in MmuType, PoolsMatch(m)
  PROVE  m.totalIngressReservedUsed <= totalIngressReserved
<1>1. \A i \in PortQueue : /\ ReservedOf(m)[i] \in Nat /\ reserveIngress[i] \in Nat
                           /\ ReservedOf(m)[i] <= reserveIngress[i]
  <2>1. \A i \in PortQueue : m.ingress_bytes[i] \in Nat /\ reserveIngress[i] \in Nat
    BY LimitTypes DEF MmuType
  <2> QED
    BY <2>1 DEF ReservedOf, GetIngressReservedUsed, Smaller
<1> QED
  BY <1>1, PortQueueFinite, TotalMonotone DEF PoolsMatch, totalIngressReserved

SharedWithin(m) == m.sharedPoolUsed <= ingressPool

\* A lossless packet that is not charged to the headroom finds a share of the
\* pool left, so it fits the pool.
LEMMA SharedFits ==
  ASSUME LosslessConfiguration,
         NEW m, NEW H, Accounts(m, H), SharedWithin(m),
         NEW p \in DataPackets, p \notin H, Admits(m, p),
         p.type = LOSSLESS, HeadroomCharge(m, p) = 0
  PROVE  m.sharedPoolUsed + p.size <= ingressPool
<1> DEFINE i == In(p)
           c == CountIngress(m, p)
           n == Admitted(m, p)
           r == c.totalIngressReservedUsed
           s == m.sharedPoolUsed + p.size
<1>1. /\ m \in MmuType /\ p \in Packets /\ i \in PortQueue
      /\ p.size \in Nat /\ p.size > 0 /\ m.sharedPoolUsed \in Nat
      /\ m.xoffTotalUsed + m.sharedPoolUsed = m.totalUsed
      /\ m.xoffTotalUsed \in Nat /\ m.totalUsed \in Nat
  BY PacketFields DEF Accounts, Holds, DataPackets, MmuType, PoolsMatch
<1>2. c \in MmuType /\ IngressCounted(c, m, p)
  BY <1>1, CountIngressCounters
<1>3. AfterChecks(m, p) = m
  BY DEF AfterChecks, LosslessConfiguration
<1>4. /\ n \in MmuType /\ AdmittedCounters(n, m, p, 0) /\ PoolsMatch(n)
  <2>1. n \in MmuType /\ AdmittedCounters(n, m, p, 0)
    BY <1>1, <1>3, AdmittedStep
  <2>2. PoolsMatch(n)
    BY AdmitPreserves DEF Accounts
  <2> QED
    BY <2>1, <2>2
<1>5. r = n.totalIngressReservedUsed
  <2>1. GetIngressReservedUsed(c, i) = GetIngressReservedUsed(n, i)
    BY <1>2, <1>4 DEF GetIngressReservedUsed, IngressCounted, AdmittedCounters
  <2> QED
    BY <1>2, <1>4, <2>1 DEF IngressCounted, AdmittedCounters
<1>6. r \in Nat /\ r <= totalIngressReserved
  BY <1>4, <1>5, ReservedWithin DEF MmuType
<1>7. /\ s \in Nat /\ s < Uint64 /\ s + m.xoffTotalUsed <= bufferPool
      /\ c.totalUsed - c.xoffTotalUsed = s
  <2>1. p.size + m.totalUsed <= bufferPool
    BY <1>1, AdmittedFits
  <2>2. c.totalUsed = m.totalUsed + p.size /\ c.xoffTotalUsed = m.xoffTotalUsed
    BY <1>2 DEF IngressCounted
  <2> QED
    BY <1>1, <2>1, <2>2, LimitTypes DEF LosslessConfiguration
<1>8. ShareOf((ingressPool - totalIngressReserved) % Uint64, GetIngressSharedUsed(c),
              Alpha(ingressAlg[LOSSLESS], alphaIngress[i], p.unsched), AlphaUnit) > 0
  <2>1. ~EntersHeadroom(c, p)
    BY <1>1 DEF HeadroomCharge
  <2>2. ~(c.ingress_bytes[i] > IngressThreshold(c, i, LOSSLESS, p.unsched))
    BY <2>1 DEF EntersHeadroom, LosslessOccupancy, LosslessThreshold, LosslessConfiguration
  <2>3. c.ingress_bytes[i] \in Nat /\ c.ingress_bytes[i] > 0
    BY <1>1, <1>2 DEF IngressCounted, MmuType
  <2> DEFINE t == IngressThreshold(c, i, LOSSLESS, p.unsched)
  <2>4. t \in Int
    <3>1. \A a, u \in Nat, pool, den \in Nat : den # 0 => ShareOf(pool, u, a, den) \in Int
      <4>1. \A a, b \in Nat : a * b \in Nat
        OBVIOUS
      <4> QED
        BY <4>1, MonusType DEF ShareOf
    <3>2. (ingressPool - totalIngressReserved) % Uint64 \in Nat
      BY LimitTypes
    <3>3. GetIngressSharedUsed(c) \in Nat
      BY <1>2, LimitTypes DEF GetIngressSharedUsed, MmuType
    <3>4. Alpha(ingressAlg[LOSSLESS], alphaIngress[i], p.unsched) \in Nat
      BY <1>1, MmuConfiguration DEF Alpha
    <3> QED
      BY <3>1, <3>2, <3>3, <3>4, MmuConfiguration DEF IngressThreshold
  <2>5. t > 0
    <3> HIDE DEF t, c
    <3> QED
      BY <2>2, <2>3, <2>4 DEF t
  <2> QED
    BY <2>5 DEF IngressThreshold
<1>9. CASE s <= r
  BY <1>6, <1>7, <1>9, LimitTypes DEF LosslessConfiguration
<1>10. CASE s > r
  <2>1. GetIngressSharedUsed(c) = s - r
    <3>1. c.totalUsed - c.xoffTotalUsed - c.totalIngressReservedUsed = s - r
      BY <1>7
    <3>2. s - r \in Nat /\ s - r < Uint64
      BY <1>6, <1>7, <1>10, LimitTypes
    <3> HIDE DEF s, r
    <3>3. (s - r) % Uint64 = s - r
      BY <3>2, LimitTypes, ModSmall
    <3> QED
      BY <3>1, <3>3 DEF GetIngressSharedUsed
  <2>2. (ingressPool - totalIngressReserved) % Uint64 = ingressPool - totalIngressReserved
    <3>1. /\ ingressPool - totalIngressReserved \in Nat
          /\ ingressPool - totalIngressReserved < Uint64
      BY LimitTypes DEF LosslessConfiguration
    <3> QED
      BY <3>1, LimitTypes, ModSmall
  <2>3. s - r \in Nat
    BY <1>6, <1>7, <1>10
  <2>4. /\ ingressPool - totalIngressReserved \in Nat
        /\ Alpha(ingressAlg[LOSSLESS], alphaIngress[i], p.unsched) \in Nat
        /\ AlphaUnit \in Nat \ {0}
    BY <1>1, MmuConfiguration, LimitTypes DEF Alpha, LosslessConfiguration
  <2> DEFINE a == Alpha(ingressAlg[LOSSLESS], alphaIngress[i], p.unsched)
  <2>5. ShareOf(ingressPool - totalIngressReserved, s - r, a, AlphaUnit) > 0
    BY <1>8, <2>1, <2>2
  <2> HIDE DEF s, r, a
  <2>6. s - r < ingressPool - totalIngressReserved
    BY <2>3, <2>4, <2>5, SharePositive DEF a
  <2> QED
    BY <1>6, <1>7, <2>6, LimitTypes DEF s
<1> QED
  BY <1>6, <1>7, <1>9, <1>10

\* The shared pool keeps to its size: what lossless packets find no room for in
\* it they are charged to the headroom, lossy ones are dropped.
LEMMA SharedAdmitted ==
  ASSUME LosslessConfiguration,
         NEW m, NEW H, Accounts(m, H), SharedWithin(m),
         NEW p \in DataPackets, p \notin H, Admits(m, p)
  PROVE  SharedWithin(Admitted(m, p))
<1> DEFINE n == Admitted(m, p)
           d == HeadroomCharge(m, p)
<1>1. /\ m \in MmuType /\ p \in Packets /\ p.size \in Nat /\ p.type \in Classes
      /\ m.sharedPoolUsed \in Nat
      /\ m.xoffTotalUsed + m.sharedPoolUsed = m.totalUsed
      /\ m.xoffTotalUsed \in Nat /\ m.totalUsed \in Nat
  BY PacketFields DEF Accounts, Holds, DataPackets, MmuType, PoolsMatch
<1>2. AfterChecks(m, p) = m
  BY DEF AfterChecks, LosslessConfiguration
<1>3. /\ n.sharedPoolUsed = m.sharedPoolUsed + p.size - d
      /\ d \in {0, p.size}
      /\ d # 0 => p.type = LOSSLESS
  <2>1. /\ AdmittedCounters(n, m, p, d)
        /\ d \in {0, p.size}
        /\ d # 0 => p.type = LOSSLESS
    BY <1>1, <1>2, AdmittedStep
  <2> HIDE DEF n, d
  <2> QED
    BY <2>1 DEF AdmittedCounters
<1> HIDE DEF n, d
<1>4. CASE p.type = LOSSLESS /\ d = 0
  BY <1>1, <1>3, <1>4, SharedFits DEF SharedWithin, n, d
<1>5. CASE d # 0
  BY <1>1, <1>3, <1>5, LimitTypes DEF SharedWithin, n
<1>6. CASE p.type # LOSSLESS
  <2>1. p.size + (m.totalUsed - m.xoffTotalUsed) <= ingressPool
    BY <1>6 DEF Admits, CheckIngressAdmission, CheckIngressLossySonic, LosslessConfiguration
  <2>2. d = 0
    BY <1>3, <1>6
  <2> QED
    BY <1>1, <1>3, <2>1, <2>2, LimitTypes DEF SharedWithin, n
<1> QED
  BY <1>4, <1>5, <1>6

\* A departure returns no more to the pool than the packet took.
LEMMA SharedReleased ==
  ASSUME NEW m, NEW H, Accounts(m, H), SharedWithin(m), NEW p \in H
  PROVE  SharedWithin(Released(m, p))
<1>1. /\ m \in MmuType /\ p \in Packets /\ Counted(m, p)
      /\ p.size \in Nat /\ m.sharedPoolUsed \in Nat
  BY CountedInBuffer, PacketFields DEF Accounts, Holds, DataPackets, MmuType
<1> DEFINE h == HeadroomReturned(m, p)
           n == Released(m, p)
<1>2. h \in Nat /\ h <= p.size
  BY <1>1, HeadroomReturnedType
<1>3. n.sharedPoolUsed = m.sharedPoolUsed + h - p.size
  BY <1>1, ReleasedStep DEF ReleasedCounters
<1> HIDE DEF h, n
<1> QED
  BY <1>1, <1>2, <1>3, LimitTypes DEF SharedWithin, n

\* One step keeps the shared pool within its size.
LEMMA SharedStep ==
  ASSUME LosslessConfiguration, Inv, SharedWithin(mmu), [Next]_vars
  PROVE  SharedWithin(mmu')
<1>1. ASSUME NEW p \in DataPackets, Admit(p)
      PROVE  SharedWithin(mmu')
  BY <1>1, SharedAdmitted DEF Admit, Inv
<1>2. ASSUME NEW p \in DataPackets, Drop(p)
      PROVE  SharedWithin(mmu')
  BY <1>2 DEF Drop, AfterChecks, LosslessConfiguration
<1>3. ASSUME NEW p \in DataPackets, Release(p)
      PROVE  SharedWithin(mmu')
  BY <1>3, SharedReleased DEF Release, Inv
<1>4. ASSUME NEW p \in DataPackets, CutThrough(p)
      PROVE  SharedWithin(mmu')
  <2>1. /\ Accounts(Admitted(mmu, p), held \cup {p})
        /\ SharedWithin(Admitted(mmu, p))
    BY <1>4, AdmitPreserves, SharedAdmitted DEF CutThrough, Inv
  <2>2. SharedWithin(Released(Admitted(mmu, p), p))
    BY <2>1, SharedReleased
  <2> QED
    BY <1>4, <2>2 DEF CutThrough
<1>5. CASE UNCHANGED vars
  BY <1>5 DEF vars
<1> QED
  BY <1>1, <1>2, <1>3, <1>4, <1>5 DEF Next

\* A queue of lossless packets keeps to its headroom limit, since the limit covers
\* its reservation and any one of its packets.
LEMMA HeadroomWithin ==
  ASSUME LosslessConfiguration, NEW m, NEW H, Accounts(m, H)
  PROVE  \A i \in PortQueue : m.xoffUsed[i] <= xoff[i]
<1> SUFFICES ASSUME NEW i \in PortQueue
             PROVE  m.xoffUsed[i] <= xoff[i]
  OBVIOUS
<1>1. /\ m.xoffUsed[i] \in Nat /\ xoff[i] \in Nat /\ reserveIngress[i] \in Nat
      /\ H \in SUBSET DataPackets
  BY LimitTypes DEF Accounts, Holds, MmuType
<1>2. CASE m.xoffUsed[i] = 0
  BY <1>1, <1>2
<1>3. CASE m.xoffUsed[i] # 0
  <2>1. Lossless(H, i) # {}
    <3>1. m.xoffUsed[i] <= Bytes(Lossless(H, i)) /\ Bytes({}) = 0
      BY TotalEmpty DEF Accounts, HeadroomFits, Bytes
    <3> QED
      BY <1>1, <1>3, <3>1
  <2>2. \A p \in Lossless(H, i) : /\ p.size \in Nat /\ p.size <= xoff[i]
                                  /\ reserveIngress[i] <= xoff[i]
    <3>1. \A p \in Lossless(H, i) : p \in DataPackets /\ p \in Packets /\ p.type = LOSSLESS /\ In(p) = i
      BY <1>1 DEF Lossless, OfClass, From, DataPackets
    <3> QED
      BY <3>1, PacketFields DEF LosslessConfiguration
  <2>3. \/ m.xoffUsed[i] <= xoff[i]
        \/ m.xoffUsed[i] <= reserveIngress[i]
        \/ \E p \in Lossless(H, i) : m.xoffUsed[i] <= p.size
    BY DEF Accounts, HeadroomLimited
  <2> QED
    BY <1>1, <2>1, <2>2, <2>3
<1> QED
  BY <1>2, <1>3

\* A lossless packet that fits what is left of its queue's headroom limit passes
\* the ingress check: with the headroom of the other queues and the shared pool full
\* there is room for it.
LEMMA RoomSuffices ==
  ASSUME LosslessConfiguration, NEW m, NEW H, Accounts(m, H), SharedWithin(m),
         NEW p \in DataPackets, p.type = LOSSLESS,
         p.size + m.xoffUsed[In(p)] <= xoff[In(p)]
  PROVE  /\ CheckIngressAdmission(m, p)
         /\ p.size + m.totalUsed <= bufferPool
<1> DEFINE i == In(p)
<1>1. /\ m \in MmuType /\ p \in Packets /\ i \in PortQueue /\ p.size \in Nat
      /\ m.sharedPoolUsed \in Nat /\ m.totalUsed \in Nat /\ m.xoffTotalUsed \in Nat
      /\ m.xoffTotalUsed + m.sharedPoolUsed = m.totalUsed
      /\ m.xoffTotalUsed = Total(PortQueue, m.xoffUsed)
      /\ \A j \in PortQueue : m.xoffUsed[j] \in Nat
  BY PacketFields DEF Accounts, Holds, DataPackets, MmuType, PoolsMatch
<1>2. m.xoffUsed[i] \in Nat
  BY <1>1
<1>3. /\ Total(PortQueue \ {i}, m.xoffUsed) \in Nat
      /\ m.xoffTotalUsed = Total(PortQueue \ {i}, m.xoffUsed) + m.xoffUsed[i]
  <2> DEFINE v == m.xoffUsed
  <2>1. \A j \in PortQueue : v[j] \in Nat
    BY <1>1
  <2> HIDE DEF v
  <2>2. /\ Total(PortQueue \ {i}, v) \in Nat
        /\ Total(PortQueue, v) = Total(PortQueue \ {i}, v) + v[i]
    BY <1>1, <2>1, PortQueueFinite, TotalRemove
  <2> QED
    BY <1>1, <2>2 DEF v
<1>4. /\ Total(PortQueue \ {i}, xoff) \in Nat
      /\ xoffTotal = Total(PortQueue \ {i}, xoff) + xoff[i]
  BY <1>1, LimitTypes, PortQueueFinite, TotalRemove DEF xoffTotal
<1>5. Total(PortQueue \ {i}, m.xoffUsed) <= Total(PortQueue \ {i}, xoff)
  <2> DEFINE v == m.xoffUsed
  <2>1. \A j \in PortQueue \ {i} : v[j] \in Nat /\ xoff[j] \in Nat /\ v[j] <= xoff[j]
    BY <1>1, LimitTypes, HeadroomWithin
  <2>2. IsFiniteSet(PortQueue \ {i})
    BY PortQueueFinite, FS_Subset
  <2> HIDE DEF v
  <2> QED
    BY <2>1, <2>2, TotalMonotone DEF v
<1>6. p.size + m.xoffUsed[i] <= xoff[i] /\ xoff[i] \in Nat
  BY <1>1, LimitTypes
<1>7. p.size + m.xoffTotalUsed <= xoffTotal
  BY <1>1, <1>2, <1>3, <1>4, <1>5, <1>6
<1>8. p.size + m.totalUsed <= ingressPool + xoffTotal
  BY <1>1, <1>7, LimitTypes DEF SharedWithin
<1>9. p.size + m.totalUsed <= bufferPool
  BY <1>1, <1>8, LimitTypes DEF LosslessConfiguration
<1> QED
  BY <1>1, <1>2, <1>6, <1>7, <1>8, <1>9 DEF CheckIngressAdmission, CheckIngressLossless

\* No ingress check drops a lossless packet whose sender has not been paused.
THEOREM LosslessCorrect ==
  LosslessConfiguration => (Spec => []LosslessDropsOnlyPaused)
<1> SUFFICES ASSUME LosslessConfiguration
             PROVE  Spec => []LosslessDropsOnlyPaused
  OBVIOUS
<1> DEFINE Within == SharedWithin(mmu)
<1>1. Init => Within
  BY LimitTypes DEF Init, NewMmu, SharedWithin
<1>2. Inv /\ Within /\ [Next]_vars => Within'
  BY SharedStep
<1>3. Inv /\ Within => LosslessDropsOnlyPaused
  <2> SUFFICES ASSUME Inv, SharedWithin(mmu), NEW p \in DataPackets,
                      p.type = LOSSLESS, ~mmu.paused[In(p)]
               PROVE  CheckIngressAdmission(mmu, p)
    BY DEF LosslessDropsOnlyPaused
  <2>1. p \in Packets /\ p.size \in Nat /\ In(p) \in PortQueue
    BY PacketFields DEF DataPackets
  <2>2. mmu.xoffUsed[In(p)] = 0
    <3>1. mmu.xoffUsed[In(p)] \in Nat
      BY <2>1 DEF Inv, Accounts, Holds, MmuType
    <3> QED
      BY <2>1, <3>1 DEF Inv, Accounts, HeadroomPauses
  <2>3. p.size + mmu.xoffUsed[In(p)] <= xoff[In(p)]
    BY <2>1, <2>2, LimitTypes DEF LosslessConfiguration
  <2> QED
    BY <2>3, RoomSuffices DEF Inv
<1> HIDE DEF Within
<1> QED
  BY <1>1, <1>2, <1>3, InvHolds, PTL DEF Spec

-------------------------------------------------------------------------------
(* The link *)

\* Of the MMU the link only sees, for each of its priorities, how much headroom
\* is used (u) and whether it is paused (pa).
UsedOf(m) == [q \in DataQueues |-> m.xoffUsed[<<Link, q>>]]
PausedOf(m) == [q \in DataQueues |-> m.paused[<<Link, q>>]]

Frame == [pkt : LinkPackets, eta : Nat]
PfcFrame == [q : DataQueues, pause : BOOLEAN, eta : Nat]

Typed(u, pa, s, fr, mp, busy, pfcs) ==
  /\ u \in [DataQueues -> Nat]
  /\ pa \in [DataQueues -> BOOLEAN]
  /\ s \in Nat
  /\ fr \in SUBSET Frame
  /\ mp \in SUBSET Queues
  /\ busy \in Nat
  /\ pfcs \in SUBSET PfcFrame

\* The packets on the link: any two arrive as far apart as the later one is long.
OnWire(s, fr) ==
  /\ s <= MaxSize
  /\ \A f \in fr : f.eta <= s + Delay
  /\ \A f, g \in fr :
       f # g => f.eta + g.pkt.size <= g.eta \/ g.eta + f.pkt.size <= f.eta

\* The PFC frames arrive one after the other, and within the device's backlog.
InOrder(busy, pfcs) ==
  /\ \A g \in pfcs : g.eta <= busy + Delay
  /\ \A g, h \in pfcs : g.eta = h.eta => g = h

Last(pfcs, g) == \A h \in pfcs : h.q = g.q => h.eta <= g.eta

\* The last PFC frame of a priority tells whether it is paused; if none is on its
\* way and the priority is paused, the sender knows.
Told(pa, mp, pfcs) ==
  \A q \in DataQueues :
    \/ \E g \in pfcs : g.q = q /\ Last(pfcs, g) /\ g.pause = pa[q]
    \/ (\A g \in pfcs : g.q # q) /\ (pa[q] => q \in mp)

\* Every resume follows a pause, which may have arrived already.
Alternate(mp, pfcs) ==
  \A g \in pfcs : ~g.pause =>
    \/ g.q \in mp /\ \A h \in pfcs : h.q = g.q /\ h.eta < g.eta => h.pause
    \/ \E h \in pfcs :
         /\ h.q = g.q /\ h.pause /\ h.eta < g.eta
         /\ \A k \in pfcs : k.q = g.q /\ h.eta < k.eta /\ k.eta < g.eta => k.pause

\* What the paused priorities will cost when they are resumed.
Cost(pa) == PfcSize * Cardinality({q \in DataQueues : pa[q]})
AllCost == PfcSize * Cardinality(DataQueues)

\* The device's backlog, with the resumes that are still to come, returns to the
\* limit in the time a lossless packet takes on the link.
Backlog(pa, fr, busy) ==
  /\ busy + Cost(pa) <= MaxAhead + AllCost + 2 * PfcSize
  /\ \A f \in fr :
       \/ busy + Cost(pa) <= MaxAhead + AllCost
       \/ busy + Cost(pa) + f.pkt.size <= MaxAhead + AllCost + 2 * PfcSize + f.eta

Entry == MaxSize + Notice

\* A queue's headroom use is bounded by the time since its pause was queued, and,
\* once the sender has stopped, by the time until its last packet arrives.
HeadroomClock(u, pa, fr, pfcs) ==
  \A q \in DataQueues :
    /\ ~pa[q] => u[q] = 0
    /\ \A g \in pfcs : g.q = q /\ g.pause /\ Last(pfcs, g) =>
         /\ u[q] + g.eta <= Entry
         /\ \A f \in fr : u[q] + g.eta + f.pkt.size <= Entry + f.eta
    /\ (\A g \in pfcs : g.q # q) =>
         \A f, h \in fr : h.pkt.qIndex = q =>
           u[q] + f.pkt.size + h.eta <= Entry + MaxSize + Delay + f.eta

LinkState(u, pa, s, fr, mp, busy, pfcs) ==
  /\ Typed(u, pa, s, fr, mp, busy, pfcs)
  /\ OnWire(s, fr)
  /\ InOrder(busy, pfcs)
  /\ Told(pa, mp, pfcs)
  /\ Alternate(mp, pfcs)
  /\ Backlog(pa, fr, busy)
  /\ HeadroomClock(u, pa, fr, pfcs)

\* The same, of the state of the MMU and the device.
LinkView(m, s, fr, mp, b) ==
  /\ LinkState(UsedOf(m), PausedOf(m), s, fr, mp, b.busy, b.pfcs)
  /\ b = [busy |-> b.busy, pfcs |-> b.pfcs]

\* The inductive invariant.
LinkInv == Inv /\ LinkView(mmu, sending, frames, m_paused, back)

-------------------------------------------------------------------------------
(* Constants *)

\* The constants in the form the proofs use.
LEMMA LinkConstants ==
  /\ Delay \in Nat /\ MaxSize \in Nat /\ MaxAhead \in Nat /\ PfcSize \in Nat /\ PfcSize > 0
  /\ MaxSize <= MaxAhead
  /\ IsFiniteSet(DataQueues) /\ Cardinality(DataQueues) \in Nat
  /\ AllCost \in Nat
  /\ Notice = MaxAhead + AllCost + PfcSize + Delay
  /\ Notice \in Nat /\ Entry \in Nat
<1>1. /\ Delay \in Nat /\ MaxSize \in Nat /\ MaxAhead \in Nat /\ PfcSize \in Nat /\ PfcSize > 0
      /\ MaxSize <= MaxAhead
  BY LinkConfiguration
<1>2. IsFiniteSet(DataQueues) /\ Cardinality(DataQueues) \in Nat
  BY MmuConfiguration, FS_Subset, FS_CardinalityType DEF DataQueues
<1>3. AllCost \in Nat
  BY <1>1, <1>2 DEF AllCost
<1>4. (Cardinality(DataQueues) + 1) * PfcSize = AllCost + PfcSize
  BY <1>1, <1>2 DEF AllCost
<1>5. Notice = MaxAhead + AllCost + PfcSize + Delay
  BY <1>1, <1>3, <1>4 DEF Notice
<1> QED
  BY <1>1, <1>2, <1>3, <1>5 DEF Entry

\* The packets of the link.
LEMMA LinkPacketFields ==
  ASSUME NEW p \in LinkPackets
  PROVE  /\ p \in Packets /\ p \in DataPackets
         /\ In(p) = <<Link, p.qIndex>> /\ p.qIndex \in DataQueues
         /\ p.size \in Nat /\ p.size > 0 /\ p.size <= MaxSize
         /\ p.inDev # p.outDev
         /\ p.type = LOSSLESS => 2 * PfcSize <= p.size
<1>1. p \in DataPackets /\ p \in Packets /\ p.inDev = Link /\ p.qIndex # 0
  BY DEF LinkPackets, DataPackets
<1>2. PacketType(p)
  BY <1>1, MmuConfiguration
<1> QED
  BY <1>1, <1>2, LinkConfiguration DEF PacketType, In, DataQueues

\* The cost of the paused priorities, and how one more or one less changes it.
LEMMA CostType ==
  ASSUME NEW pa \in [DataQueues -> BOOLEAN]
  PROVE  Cost(pa) \in Nat /\ Cost(pa) <= AllCost
<1> DEFINE S == {q \in DataQueues : pa[q]}
<1>1. IsFiniteSet(S) /\ Cardinality(S) \in Nat /\ Cardinality(S) <= Cardinality(DataQueues)
  BY LinkConstants, FS_Subset, FS_CardinalityType
<1> DEFINE n == Cardinality(S)
           k == Cardinality(DataQueues)
<1>2. n \in Nat /\ k \in Nat /\ n <= k /\ PfcSize \in Nat
  BY <1>1, LinkConstants
<1>3. Cost(pa) = PfcSize * n /\ AllCost = PfcSize * k
  BY DEF Cost, AllCost
<1> HIDE DEF n, k
<1>4. PfcSize * n \in Nat /\ PfcSize * k = PfcSize * n + PfcSize * (k - n)
  BY <1>2
<1>5. k - n \in Nat /\ PfcSize * (k - n) \in Nat
  BY <1>2
<1> QED
  BY <1>3, <1>4, <1>5

LEMMA CostPaused ==
  ASSUME NEW pa \in [DataQueues -> BOOLEAN], NEW q \in DataQueues, ~pa[q]
  PROVE  Cost([pa EXCEPT ![q] = TRUE]) = Cost(pa) + PfcSize
<1> DEFINE S == {x \in DataQueues : pa[x]}
           T == {x \in DataQueues : [pa EXCEPT ![q] = TRUE][x]}
<1>1. T = S \cup {q} /\ q \notin S
  OBVIOUS
<1>2. IsFiniteSet(S) /\ Cardinality(S) \in Nat
  BY LinkConstants, FS_Subset, FS_CardinalityType
<1>3. Cardinality(T) = Cardinality(S) + 1
  BY <1>1, <1>2, FS_AddElement
<1> DEFINE n == Cardinality(S)
<1>4. n \in Nat /\ PfcSize \in Nat
  BY <1>2, LinkConstants
<1>5. Cost(pa) = PfcSize * n /\ Cost([pa EXCEPT ![q] = TRUE]) = PfcSize * (n + 1)
  BY <1>3 DEF Cost
<1> HIDE DEF n
<1> QED
  BY <1>4, <1>5

LEMMA CostResumed ==
  ASSUME NEW pa \in [DataQueues -> BOOLEAN], NEW q \in DataQueues, pa[q]
  PROVE  Cost(pa) = Cost([pa EXCEPT ![q] = FALSE]) + PfcSize
<1> DEFINE pb == [pa EXCEPT ![q] = FALSE]
<1>1. pb \in [DataQueues -> BOOLEAN] /\ ~pb[q] /\ [pb EXCEPT ![q] = TRUE] = pa
  OBVIOUS
<1> HIDE DEF pb
<1>2. Cost([pb EXCEPT ![q] = TRUE]) = Cost(pb) + PfcSize
  BY <1>1, CostPaused
<1> QED
  BY <1>1, <1>2 DEF pb

-------------------------------------------------------------------------------
(* PFC frames *)

NewPfc(q, z, busy) == [q |-> q, pause |-> z, eta |-> busy + PfcSize + Delay]

\* The PFC frame g tells that pa changes to na.
Tells(g, pa, na, busy) ==
  /\ g \in PfcFrame /\ g.eta = busy + PfcSize + Delay
  /\ g.pause # pa[g.q]
  /\ na = [pa EXCEPT ![g.q] = g.pause]

\* A change of a priority, told in a PFC frame behind the others.
LEMMA PfcSent ==
  ASSUME NEW pa \in [DataQueues -> BOOLEAN],
         NEW busy \in Nat, NEW pfcs \in SUBSET PfcFrame, NEW mp,
         InOrder(busy, pfcs), Told(pa, mp, pfcs), Alternate(mp, pfcs),
         NEW g, NEW na, Tells(g, pa, na, busy)
  PROVE  /\ InOrder(busy + PfcSize, pfcs \cup {g})
         /\ Told(na, mp, pfcs \cup {g})
         /\ Alternate(mp, pfcs \cup {g})
         /\ \A h \in pfcs : h.eta < g.eta
         /\ Last(pfcs \cup {g}, g)
         /\ \A h \in pfcs : h.q = g.q => ~Last(pfcs \cup {g}, h)
         /\ \A h \in pfcs : h.q # g.q => (Last(pfcs \cup {g}, h) <=> Last(pfcs, h))
<1> DEFINE q == g.q
           all == pfcs \cup {g}
<1>1. /\ Delay \in Nat /\ PfcSize \in Nat /\ PfcSize > 0
      /\ g.q = q /\ g.eta = busy + PfcSize + Delay /\ g.eta \in Nat /\ q \in DataQueues
      /\ g.pause \in BOOLEAN
  BY LinkConstants DEF PfcFrame, Tells
<1> HIDE DEF q
<1>2. \A h \in pfcs : h.q \in DataQueues /\ h.pause \in BOOLEAN /\ h.eta \in Nat
  BY DEF PfcFrame
<1>3. \A h \in pfcs : h.eta < g.eta
  BY <1>1, <1>2 DEF InOrder
<1>4. InOrder(busy + PfcSize, all)
  BY <1>1, <1>2, <1>3 DEF InOrder
<1>5. Last(all, g)
  BY <1>1, <1>2, <1>3 DEF Last
<1>6. \A h \in pfcs : h.q = q => ~Last(all, h)
  BY <1>1, <1>2, <1>3 DEF Last
<1>7. \A h \in pfcs : h.q # q => (Last(all, h) <=> Last(pfcs, h))
  BY <1>1 DEF Last
<1>8. Told(na, mp, all)
  <2>a. na = [pa EXCEPT ![q] = g.pause]
    BY DEF q, Tells
  <2> SUFFICES ASSUME NEW x \in DataQueues
               PROVE  \/ \E h \in all : /\ h.q = x /\ Last(all, h)
                                        /\ h.pause = na[x]
                      \/ /\ \A h \in all : h.q # x
                         /\ na[x] => x \in mp
    BY DEF Told
  <2>1. CASE x = q
    <3>1. na[x] = g.pause
      BY <1>1, <2>a, <2>1
    <3> QED
      BY <1>1, <1>5, <2>1, <3>1
  <2>2. CASE x # q
    <3>1. na[x] = pa[x]
      BY <1>1, <2>a, <2>2
    <3> QED
      BY <1>1, <1>7, <2>2, <3>1 DEF Told
  <2> QED
    BY <2>1, <2>2
<1>9. Alternate(mp, all)
  <2> SUFFICES ASSUME NEW h \in all, ~h.pause
               PROVE  \/ /\ h.q \in mp
                         /\ \A k \in all : k.q = h.q /\ k.eta < h.eta => k.pause
                      \/ \E j \in all :
                           /\ j.q = h.q /\ j.pause /\ j.eta < h.eta
                           /\ \A k \in all :
                                k.q = h.q /\ j.eta < k.eta /\ k.eta < h.eta => k.pause
    BY DEF Alternate
  <2>1. CASE h \in pfcs
    <3>1. ~(g.eta < h.eta)
      BY <1>1, <1>2, <1>3, <2>1
    <3>2. CASE h.q \in mp /\ \A k \in pfcs : k.q = h.q /\ k.eta < h.eta => k.pause
      BY <3>1, <3>2
    <3>3. CASE \E j \in pfcs :
                 /\ j.q = h.q /\ j.pause /\ j.eta < h.eta
                 /\ \A k \in pfcs :
                      k.q = h.q /\ j.eta < k.eta /\ k.eta < h.eta => k.pause
      BY <3>1, <3>3
    <3> QED
      BY <2>1, <3>2, <3>3 DEF Alternate
  <2>2. CASE h = g
    <3>1. pa[q] = TRUE
      <4>1. pa[q] \in BOOLEAN /\ g.pause # pa[q]
        BY <1>1 DEF q, Tells
      <4> QED
        BY <1>1, <2>2, <4>1
    <3>2. CASE \E j \in pfcs : j.q = q /\ Last(pfcs, j) /\ j.pause = pa[q]
      <4>1. PICK j \in pfcs : j.q = q /\ Last(pfcs, j) /\ j.pause = pa[q]
        BY <3>2
      <4>2. j.pause /\ j.eta < g.eta /\ j.q = h.q
        BY <1>1, <1>3, <2>2, <3>1, <4>1
      <4>3. \A k \in all : ~(k.q = h.q /\ j.eta < k.eta /\ k.eta < h.eta)
        BY <1>1, <1>2, <2>2, <4>1 DEF Last
      <4> QED
        BY <2>2, <4>2, <4>3
    <3>3. CASE (\A j \in pfcs : j.q # q) /\ (pa[q] => q \in mp)
      BY <1>1, <2>2, <3>1, <3>3
    <3> QED
      BY <1>1, <3>2, <3>3 DEF Told
  <2> QED
    BY <2>1, <2>2
<1> QED
  BY <1>1, <1>3, <1>4, <1>5, <1>6, <1>7, <1>8, <1>9 DEF q

\* The first PFC frame on the link arrives, or, if it is a resume, is lost.
LEMMA PfcReceived ==
  ASSUME NEW u, NEW pa, NEW s, NEW fr, NEW mp, NEW busy, NEW pfcs,
         LinkState(u, pa, s, fr, mp, busy, pfcs),
         NEW g \in pfcs, g.eta = 0,
         NEW np, \/ np = IF g.pause THEN mp \cup {g.q} ELSE mp \ {g.q}
                 \/ ~g.pause /\ np = mp
  PROVE  LinkState(u, pa, s, fr, np, busy, pfcs \ {g})
<1> DEFINE left == pfcs \ {g}
<1>1. /\ Typed(u, pa, s, fr, mp, busy, pfcs) /\ OnWire(s, fr) /\ InOrder(busy, pfcs)
      /\ Told(pa, mp, pfcs) /\ Alternate(mp, pfcs) /\ Backlog(pa, fr, busy)
      /\ HeadroomClock(u, pa, fr, pfcs)
  BY DEF LinkState
<1>2. /\ \A h \in pfcs : h.q \in DataQueues /\ h.pause \in BOOLEAN /\ h.eta \in Nat
      /\ DataQueues \subseteq Queues
  BY <1>1 DEF Typed, PfcFrame, DataQueues
<1>3. \A h \in left : h.eta > 0
  BY <1>1, <1>2 DEF InOrder
<1>4. Typed(u, pa, s, fr, np, busy, left)
  BY <1>1, <1>2 DEF Typed
<1>5. InOrder(busy, left)
  BY <1>1 DEF InOrder
<1>6. \A h \in left : Last(left, h) <=> Last(pfcs, h)
  BY <1>2, <1>3 DEF Last
<1>7. Told(pa, np, left)
  <2> SUFFICES ASSUME NEW q \in DataQueues
               PROVE  \/ \E h \in left : h.q = q /\ Last(left, h) /\ h.pause = pa[q]
                      \/ (\A h \in left : h.q # q) /\ (pa[q] => q \in np)
    BY DEF Told
  <2>1. CASE \E h \in pfcs : h.q = q /\ Last(pfcs, h) /\ h.pause = pa[q]
    <3>1. PICK h \in pfcs : h.q = q /\ Last(pfcs, h) /\ h.pause = pa[q]
      BY <2>1
    <3>2. CASE h = g
      <4>1. \A k \in left : k.q # q
        BY <1>2, <1>3, <3>1, <3>2 DEF Last
      <4> QED
        BY <3>1, <3>2, <4>1
    <3>3. CASE h # g
      BY <1>6, <3>1, <3>3
    <3> QED
      BY <3>2, <3>3
  <2>2. CASE (\A h \in pfcs : h.q # q) /\ (pa[q] => q \in mp)
    BY <2>2
  <2> QED
    BY <1>1, <2>1, <2>2 DEF Told
<1>8. Alternate(np, left)
  <2> SUFFICES ASSUME NEW h \in left, ~h.pause
               PROVE  \/ /\ h.q \in np
                         /\ \A k \in left : k.q = h.q /\ k.eta < h.eta => k.pause
                      \/ \E j \in left :
                           /\ j.q = h.q /\ j.pause /\ j.eta < h.eta
                           /\ \A k \in left :
                                k.q = h.q /\ j.eta < k.eta /\ k.eta < h.eta => k.pause
    BY DEF Alternate
  <2>1. CASE h.q \in mp /\ \A k \in pfcs : k.q = h.q /\ k.eta < h.eta => k.pause
    <3>1. g.q = h.q => g.pause
      BY <1>3, <2>1
    <3> QED
      BY <2>1, <3>1
  <2>2. CASE \E j \in pfcs :
               /\ j.q = h.q /\ j.pause /\ j.eta < h.eta
               /\ \A k \in pfcs :
                    k.q = h.q /\ j.eta < k.eta /\ k.eta < h.eta => k.pause
    <3>1. PICK j \in pfcs :
                 /\ j.q = h.q /\ j.pause /\ j.eta < h.eta
                 /\ \A k \in pfcs :
                      k.q = h.q /\ j.eta < k.eta /\ k.eta < h.eta => k.pause
      BY <2>2
    <3>2. CASE j = g
      <4>1. h.q \in np
        BY <3>1, <3>2
      <4>2. \A k \in left : k.q = h.q /\ k.eta < h.eta => k.pause
        BY <1>3, <3>1, <3>2
      <4> QED
        BY <4>1, <4>2
    <3>3. CASE j # g
      BY <3>1, <3>3
    <3> QED
      BY <3>2, <3>3
  <2> QED
    BY <1>1, <2>1, <2>2 DEF Alternate
<1>9. HeadroomClock(u, pa, fr, left)
  <2> SUFFICES ASSUME NEW q \in DataQueues
               PROVE  /\ ~pa[q] => u[q] = 0
                      /\ \A h \in left : h.q = q /\ h.pause /\ Last(left, h) =>
                           /\ u[q] + h.eta <= Entry
                           /\ \A f \in fr : u[q] + h.eta + f.pkt.size <= Entry + f.eta
                      /\ (\A h \in left : h.q # q) =>
                           \A f, k \in fr : k.pkt.qIndex = q =>
                             u[q] + f.pkt.size + k.eta <= Entry + MaxSize + Delay + f.eta
    BY DEF HeadroomClock
  <2>1. ~pa[q] => u[q] = 0
    BY <1>1 DEF HeadroomClock
  <2>2. \A h \in left : h.q = q /\ h.pause /\ Last(left, h) =>
          /\ u[q] + h.eta <= Entry
          /\ \A f \in fr : u[q] + h.eta + f.pkt.size <= Entry + f.eta
    BY <1>1, <1>6 DEF HeadroomClock
  <2>3. ASSUME \A h \in left : h.q # q, NEW f \in fr, NEW k \in fr, k.pkt.qIndex = q
        PROVE  u[q] + f.pkt.size + k.eta <= Entry + MaxSize + Delay + f.eta
    <3>1. CASE g.q # q
      <4>1. \A h \in pfcs : h.q # q
        BY <2>3, <3>1
      <4> QED
        BY <1>1, <2>3, <4>1 DEF HeadroomClock
    <3>2. CASE g.q = q
      <4>1. f.eta \in Nat /\ k.eta \in Nat /\ f.pkt \in LinkPackets /\ u[q] \in Nat /\ s \in Nat
        BY <1>1 DEF Typed, Frame
      <4>2. f.pkt.size \in Nat /\ f.pkt.size <= MaxSize
        BY <4>1, LinkPacketFields
      <4>3. k.eta <= MaxSize + Delay
        BY <1>1, <4>1, LinkConstants DEF OnWire
      <4>4. Last(pfcs, g)
        BY <1>2, <2>3, <3>2 DEF Last
      <4>5. u[q] + f.pkt.size <= Entry + f.eta
        <5>1. CASE pa[q]
          <6>1. g.pause
            <7>1. PICK h \in pfcs : h.q = q /\ Last(pfcs, h) /\ h.pause = pa[q]
              BY <1>1, <3>2 DEF Told
            <7>2. h = g
              BY <2>3, <7>1
            <7> QED
              BY <5>1, <7>1, <7>2
          <6>2. u[q] + g.eta + f.pkt.size <= Entry + f.eta
            BY <1>1, <3>2, <4>4, <6>1 DEF HeadroomClock
          <6> QED
            BY <4>1, <4>2, <6>2
        <5>2. CASE ~pa[q]
          BY <2>1, <4>1, <4>2, <5>2, LinkConstants DEF Entry
        <5> QED
          BY <5>1, <5>2
      <4> QED
        BY <4>1, <4>2, <4>3, <4>5, LinkConstants
    <3> QED
      BY <3>1, <3>2
  <2> QED
    BY <2>1, <2>2, <2>3
<1> QED
  BY <1>1, <1>4, <1>5, <1>7, <1>8, <1>9 DEF LinkState

-------------------------------------------------------------------------------
(* The switch *)

\* Queue q of the link uses less of its headroom, and may be resumed.
Empties(q, u, pa, nu, na) ==
  /\ nu \in [DataQueues -> Nat] /\ na \in [DataQueues -> BOOLEAN]
  /\ \A x \in DataQueues \ {q} : nu[x] = u[x] /\ na[x] = pa[x]
  /\ nu[q] <= u[q]
  /\ na[q] => pa[q]
  /\ nu[q] > 0 => na[q] = pa[q]

\* A packet of the link leaves the switch.
LEMMA QueueLeft ==
  ASSUME NEW u, NEW pa, NEW s, NEW fr, NEW mp, NEW busy, NEW pfcs,
         LinkState(u, pa, s, fr, mp, busy, pfcs),
         NEW q \in DataQueues, NEW nu, NEW na, Empties(q, u, pa, nu, na)
  PROVE  IF na[q] = pa[q] THEN LinkState(nu, na, s, fr, mp, busy, pfcs)
         ELSE LinkState(nu, na, s, fr, mp, busy + PfcSize,
                        pfcs \cup {NewPfc(q, na[q], busy)})
<1> DEFINE v == nu[q]
           z == na[q]
<1>1. /\ Typed(u, pa, s, fr, mp, busy, pfcs) /\ OnWire(s, fr) /\ InOrder(busy, pfcs)
      /\ Told(pa, mp, pfcs) /\ Alternate(mp, pfcs) /\ Backlog(pa, fr, busy)
      /\ HeadroomClock(u, pa, fr, pfcs)
  BY DEF LinkState
<1>2. /\ u \in [DataQueues -> Nat] /\ pa \in [DataQueues -> BOOLEAN]
      /\ fr \in SUBSET Frame /\ busy \in Nat /\ pfcs \in SUBSET PfcFrame /\ s \in Nat
  BY <1>1 DEF Typed
<1>3. \A f \in fr : f.pkt \in LinkPackets /\ f.eta \in Nat
  BY <1>2 DEF Frame
<1>4. \A f \in fr : f.pkt.size \in Nat /\ f.pkt.size <= MaxSize
  BY <1>3, LinkPacketFields
<1>5. \A g \in pfcs : g.eta \in Nat
  BY <1>2 DEF PfcFrame
<1>6. nu \in [DataQueues -> Nat] /\ \A x \in DataQueues : nu[x] \in Nat /\ u[x] \in Nat /\ nu[x] <= u[x]
  BY <1>2 DEF Empties
<1>a. /\ na \in [DataQueues -> BOOLEAN] /\ z \in BOOLEAN /\ v \in Nat
      /\ (z => pa[q]) /\ (v > 0 => z = pa[q])
      /\ nu = [u EXCEPT ![q] = v] /\ na = [pa EXCEPT ![q] = z]
  BY <1>2 DEF Empties
<1> HIDE DEF v, z
<1>7. ASSUME z = pa[q]
      PROVE  LinkState(nu, na, s, fr, mp, busy, pfcs)
  <2>1. na = pa
    BY <1>2, <1>a, <1>7
  <2>2. HeadroomClock(nu, pa, fr, pfcs)
    <3> SUFFICES ASSUME NEW x \in DataQueues
                 PROVE  /\ ~pa[x] => nu[x] = 0
                        /\ \A g \in pfcs : g.q = x /\ g.pause /\ Last(pfcs, g) =>
                             /\ nu[x] + g.eta <= Entry
                             /\ \A f \in fr : nu[x] + g.eta + f.pkt.size <= Entry + f.eta
                        /\ (\A g \in pfcs : g.q # x) =>
                             \A f, h \in fr : h.pkt.qIndex = x =>
                               nu[x] + f.pkt.size + h.eta <= Entry + MaxSize + Delay + f.eta
      BY DEF HeadroomClock
    <3>1. nu[x] \in Nat /\ u[x] \in Nat /\ nu[x] <= u[x]
      BY <1>6
    <3>2. ~pa[x] => nu[x] = 0
      BY <1>1, <3>1 DEF HeadroomClock
    <3>3. ASSUME NEW g \in pfcs, g.q = x, g.pause, Last(pfcs, g)
          PROVE  /\ nu[x] + g.eta <= Entry
                 /\ \A f \in fr : nu[x] + g.eta + f.pkt.size <= Entry + f.eta
      <4>1. /\ u[x] + g.eta <= Entry
            /\ \A f \in fr : u[x] + g.eta + f.pkt.size <= Entry + f.eta
        BY <1>1, <3>3 DEF HeadroomClock
      <4> QED
        BY <1>3, <1>4, <1>5, <3>1, <4>1, LinkConstants
    <3>4. ASSUME \A g \in pfcs : g.q # x, NEW f \in fr, NEW h \in fr, h.pkt.qIndex = x
          PROVE  nu[x] + f.pkt.size + h.eta <= Entry + MaxSize + Delay + f.eta
      <4>1. u[x] + f.pkt.size + h.eta <= Entry + MaxSize + Delay + f.eta
        BY <1>1, <3>4 DEF HeadroomClock
      <4> QED
        BY <1>3, <1>4, <3>1, <4>1, LinkConstants
    <3> QED
      BY <3>2, <3>3, <3>4
  <2>3. Typed(nu, pa, s, fr, mp, busy, pfcs)
    BY <1>1, <1>6 DEF Typed
  <2> QED
    BY <1>1, <2>1, <2>2, <2>3 DEF LinkState
<1>8. ASSUME z # pa[q]
      PROVE  LinkState(nu, na, s, fr, mp, busy + PfcSize, pfcs \cup {NewPfc(q, z, busy)})
  <2> DEFINE g == NewPfc(q, z, busy)
             all == pfcs \cup {g}
  <2>1. pa[q] = TRUE /\ z = FALSE /\ v = 0
    <3>1. pa[q] \in BOOLEAN
      BY <1>2
    <3>a. z \in BOOLEAN /\ (z => pa[q]) /\ (v > 0 => z = pa[q]) /\ v \in Nat
      BY <1>a
    <3>2. CASE z = TRUE
      BY <1>8, <3>a, <3>1, <3>2
    <3>3. CASE z = FALSE
      <4>1. pa[q] = TRUE
        BY <1>8, <3>1, <3>3
      <4>2. ~(v > 0)
        BY <1>8, <3>a, Zenon
      <4> QED
        BY <3>a, <3>3, <4>1, <4>2
    <3> QED
      BY <3>a, <3>2, <3>3
  <2>a. na = [pa EXCEPT ![q] = FALSE]
    BY <1>a, <2>1
  <2>b. g \in PfcFrame /\ g.q = q /\ g.pause = FALSE /\ g.eta = busy + PfcSize + Delay
    <3>1. g = [q |-> q, pause |-> FALSE, eta |-> busy + PfcSize + Delay]
      BY <2>1 DEF NewPfc
    <3>2. busy + PfcSize + Delay \in Nat
      BY <1>2, LinkConstants
    <3> HIDE DEF g
    <3> QED
      BY <3>1, <3>2 DEF PfcFrame
  <2> HIDE DEF g
  <2>2. /\ all \in SUBSET PfcFrame /\ InOrder(busy + PfcSize, all) /\ Told(na, mp, all)
        /\ Alternate(mp, all)
        /\ \A h \in pfcs : h.q = q => ~Last(all, h)
        /\ \A h \in pfcs : h.q # q => (Last(all, h) <=> Last(pfcs, h))
    <3>1. Tells(g, pa, na, busy)
      <4>1. g.pause # pa[g.q] /\ na = [pa EXCEPT ![g.q] = g.pause]
        BY <2>1, <2>a, <2>b
      <4> QED
        BY <2>b, <4>1 DEF Tells
    <3>2. /\ pa \in [DataQueues -> BOOLEAN] /\ busy \in Nat /\ pfcs \in SUBSET PfcFrame
          /\ InOrder(busy, pfcs) /\ Told(pa, mp, pfcs) /\ Alternate(mp, pfcs)
      BY <1>1, <1>2, <2>b
    <3> HIDE DEF all
    <3>3. /\ InOrder(busy + PfcSize, pfcs \cup {g}) /\ Told(na, mp, pfcs \cup {g})
          /\ Alternate(mp, pfcs \cup {g})
          /\ \A h \in pfcs : h.q = g.q => ~Last(pfcs \cup {g}, h)
          /\ \A h \in pfcs : h.q # g.q => (Last(pfcs \cup {g}, h) <=> Last(pfcs, h))
      BY <3>1, <3>2, PfcSent
    <3> QED
      BY <2>b, <3>2, <3>3 DEF all
  <2>3. Cost(pa) = Cost(na) + PfcSize
    BY <1>2, <2>1, <2>a, CostResumed
  <2>4. /\ na \in [DataQueues -> BOOLEAN] /\ Cost(na) \in Nat /\ Cost(pa) \in Nat
        /\ PfcSize \in Nat /\ busy + PfcSize \in Nat
    <3>1. na \in [DataQueues -> BOOLEAN]
      BY <1>a
    <3> QED
      BY <1>2, <3>1, CostType, LinkConstants
  <2>5. Backlog(na, fr, busy + PfcSize)
    <3>1. busy + PfcSize + Cost(na) = busy + Cost(pa)
      BY <1>2, <2>3, <2>4
    <3> QED
      BY <1>1, <3>1 DEF Backlog
  <2>6. HeadroomClock(nu, na, fr, all)
    <3> SUFFICES ASSUME NEW x \in DataQueues
                 PROVE  /\ ~na[x] => nu[x] = 0
                        /\ \A h \in all : h.q = x /\ h.pause /\ Last(all, h) =>
                             /\ nu[x] + h.eta <= Entry
                             /\ \A f \in fr : nu[x] + h.eta + f.pkt.size <= Entry + f.eta
                        /\ (\A h \in all : h.q # x) =>
                             \A f, h \in fr : h.pkt.qIndex = x =>
                               nu[x] + f.pkt.size + h.eta <= Entry + MaxSize + Delay + f.eta
      BY DEF HeadroomClock
    <3>1. CASE x = q
      <4>1. nu[x] = 0
        BY <1>2, <1>a, <2>1, <3>1
      <4>2. \A h \in all : ~(h.q = x /\ h.pause /\ Last(all, h))
        BY <2>1, <2>2, <2>b, <3>1
      <4>3. g \in all /\ g.q = x
        BY <2>b, <3>1
      <4> QED
        BY <4>1, <4>2, <4>3
    <3>2. CASE x # q
      <4>1. nu[x] = u[x] /\ na[x] = pa[x]
        BY <1>2, <1>a, <3>2
      <4>2. \A h \in all : h.q = x => h \in pfcs
        BY <2>b, <3>2
      <4>3. \A h \in all : h.q = x => (Last(all, h) <=> Last(pfcs, h))
        BY <2>2, <3>2, <4>2
      <4> HIDE DEF all
      <4>4. (\A h \in all : h.q # x) => \A h \in pfcs : h.q # x
        BY DEF all
      <4> QED
        BY <1>1, <4>1, <4>2, <4>3, <4>4 DEF HeadroomClock
    <3> QED
      BY <3>1, <3>2
  <2>7. Typed(nu, na, s, fr, mp, busy + PfcSize, all)
    BY <1>1, <1>6, <2>2, <2>4 DEF Typed
  <2> QED
    BY <1>1, <2>2, <2>5, <2>6, <2>7 DEF LinkState, g
<1> QED
  BY <1>7, <1>8 DEF z

\* The device has other frames to transmit, within the bound.
LEMMA DeviceBusy ==
  ASSUME NEW u, NEW pa, NEW s, NEW fr, NEW mp, NEW busy, NEW pfcs,
         LinkState(u, pa, s, fr, mp, busy, pfcs),
         NEW b \in Nat, busy <= b, b <= MaxAhead
  PROVE  LinkState(u, pa, s, fr, mp, b, pfcs)
<1>1. /\ Typed(u, pa, s, fr, mp, busy, pfcs) /\ OnWire(s, fr) /\ InOrder(busy, pfcs)
      /\ Told(pa, mp, pfcs) /\ Alternate(mp, pfcs) /\ Backlog(pa, fr, busy)
      /\ HeadroomClock(u, pa, fr, pfcs)
  BY DEF LinkState
<1>2. Typed(u, pa, s, fr, mp, b, pfcs)
  BY <1>1 DEF Typed
<1>3. InOrder(b, pfcs)
  <2>1. busy \in Nat /\ \A g \in pfcs : g.eta \in Nat
    BY <1>1 DEF Typed, PfcFrame
  <2> QED
    BY <1>1, <2>1, LinkConstants DEF InOrder
<1>4. Backlog(pa, fr, b)
  <2>1. Cost(pa) \in Nat /\ Cost(pa) <= AllCost
    BY <1>1, CostType DEF Typed
  <2>2. b + Cost(pa) <= MaxAhead + AllCost
    BY <2>1, LinkConstants
  <2>3. b + Cost(pa) <= MaxAhead + AllCost + 2 * PfcSize
    BY <2>1, <2>2, LinkConstants
  <2> QED
    BY <2>2, <2>3 DEF Backlog
<1> QED
  BY <1>1, <1>2, <1>3, <1>4 DEF LinkState

\* Packet f enters the buffer, its headroom or neither.
Enters(f, u, pa, nu, na) ==
  LET q == f.pkt.qIndex
  IN  /\ nu \in [DataQueues -> Nat] /\ na \in [DataQueues -> BOOLEAN]
      /\ \A x \in DataQueues \ {q} : nu[x] = u[x] /\ na[x] = pa[x]
      /\ nu[q] = u[q] \/ (f.pkt.type = LOSSLESS /\ nu[q] = u[q] + f.pkt.size)
      /\ na[q] <=> pa[q] \/ nu[q] > 0

\* A packet arrives at the switch, and may pause its queue.
LEMMA PacketArrived ==
  ASSUME NEW u, NEW pa, NEW s, NEW fr, NEW mp, NEW busy, NEW pfcs,
         LinkState(u, pa, s, fr, mp, busy, pfcs),
         NEW f \in fr, f.eta = 0,
         NEW nu, NEW na, Enters(f, u, pa, nu, na)
  PROVE  LET q == f.pkt.qIndex
         IN  IF na[q] = pa[q] THEN LinkState(nu, na, s, fr \ {f}, mp, busy, pfcs)
             ELSE LinkState(nu, na, s, fr \ {f}, mp, busy + PfcSize,
                            pfcs \cup {NewPfc(q, na[q], busy)})
<1> DEFINE q == f.pkt.qIndex
           rest == fr \ {f}
<1>1. /\ Typed(u, pa, s, fr, mp, busy, pfcs) /\ OnWire(s, fr) /\ InOrder(busy, pfcs)
      /\ Told(pa, mp, pfcs) /\ Alternate(mp, pfcs) /\ Backlog(pa, fr, busy)
      /\ HeadroomClock(u, pa, fr, pfcs)
  BY DEF LinkState
<1>2. /\ u \in [DataQueues -> Nat] /\ pa \in [DataQueues -> BOOLEAN]
      /\ fr \in SUBSET Frame /\ busy \in Nat /\ pfcs \in SUBSET PfcFrame /\ s \in Nat
  BY <1>1 DEF Typed
<1>3. \A k \in fr : k.pkt \in LinkPackets /\ k.eta \in Nat
  BY <1>2 DEF Frame
<1>4. \A k \in fr : /\ k.pkt.size \in Nat /\ k.pkt.size > 0 /\ k.pkt.size <= MaxSize
                    /\ k.pkt.type = LOSSLESS => 2 * PfcSize <= k.pkt.size
                    /\ k.pkt.qIndex \in DataQueues
  BY <1>3, LinkPacketFields
<1>5. \A g \in pfcs : g.eta \in Nat
  BY <1>2 DEF PfcFrame
<1>6. q \in DataQueues
  BY <1>4
<1>7. /\ nu \in [DataQueues -> Nat] /\ na \in [DataQueues -> BOOLEAN]
      /\ \A x \in DataQueues \ {q} : nu[x] = u[x] /\ na[x] = pa[x]
      /\ nu[q] = u[q] \/ (f.pkt.type = LOSSLESS /\ nu[q] = u[q] + f.pkt.size)
      /\ na[q] <=> pa[q] \/ nu[q] > 0
      /\ nu[q] \in Nat /\ u[q] \in Nat /\ na[q] \in BOOLEAN /\ pa[q] \in BOOLEAN
  BY <1>2, <1>6 DEF Enters
<1>8. \A k \in rest : k.pkt.size <= k.eta
  <2> SUFFICES ASSUME NEW k \in rest
               PROVE  k.pkt.size <= k.eta
    OBVIOUS
  <2>1. f.eta + k.pkt.size <= k.eta \/ k.eta + f.pkt.size <= f.eta
    BY <1>1 DEF OnWire
  <2> QED
    BY <1>3, <1>4, <2>1
<1>9. OnWire(s, rest)
  BY <1>1 DEF OnWire
<1> HIDE DEF q
<1>10. ASSUME na[q] = pa[q]
       PROVE  LinkState(nu, na, s, rest, mp, busy, pfcs)
  <2>1. na = pa
    BY <1>2, <1>7, <1>10
  <2>2. Backlog(pa, rest, busy)
    BY <1>1 DEF Backlog
  <2>3. HeadroomClock(nu, pa, rest, pfcs)
    <3> SUFFICES ASSUME NEW x \in DataQueues
                 PROVE  /\ ~pa[x] => nu[x] = 0
                        /\ \A g \in pfcs : g.q = x /\ g.pause /\ Last(pfcs, g) =>
                             /\ nu[x] + g.eta <= Entry
                             /\ \A k \in rest : nu[x] + g.eta + k.pkt.size <= Entry + k.eta
                        /\ (\A g \in pfcs : g.q # x) =>
                             \A k, h \in rest : h.pkt.qIndex = x =>
                               nu[x] + k.pkt.size + h.eta <= Entry + MaxSize + Delay + k.eta
      BY DEF HeadroomClock
    <3>1. CASE nu[x] = u[x]
      BY <1>1, <3>1 DEF HeadroomClock
    <3>2. CASE nu[x] # u[x]
      <4>1. x = q /\ nu[x] = u[x] + f.pkt.size /\ u[x] \in Nat /\ nu[x] \in Nat
        BY <1>7, <3>2
      <4>2. f.pkt.size \in Nat /\ f.pkt.size > 0
        BY <1>4
      <4>3. ~pa[x] => nu[x] = 0
        BY <1>7, <1>10, <4>1, <4>2
      <4>4. ASSUME NEW g \in pfcs, g.q = x, g.pause, Last(pfcs, g)
            PROVE  /\ nu[x] + g.eta <= Entry
                   /\ \A k \in rest : nu[x] + g.eta + k.pkt.size <= Entry + k.eta
        <5>1. u[x] + g.eta + f.pkt.size <= Entry + f.eta
          BY <1>1, <4>4 DEF HeadroomClock
        <5>2. nu[x] + g.eta <= Entry
          BY <1>5, <4>1, <4>2, <5>1, LinkConstants
        <5> QED
          BY <1>3, <1>4, <1>5, <1>8, <4>1, <5>2, LinkConstants
      <4>5. ASSUME \A g \in pfcs : g.q # x, NEW k \in rest, NEW h \in rest, h.pkt.qIndex = x
            PROVE  nu[x] + k.pkt.size + h.eta <= Entry + MaxSize + Delay + k.eta
        <5>1. u[x] + f.pkt.size + h.eta <= Entry + MaxSize + Delay + f.eta
          BY <1>1, <4>5 DEF HeadroomClock
        <5>2. k.pkt.size <= k.eta /\ k.pkt.size \in Nat /\ k.eta \in Nat /\ h.eta \in Nat
          BY <1>3, <1>4, <1>8
        <5> QED
          BY <4>1, <4>2, <5>1, <5>2, LinkConstants
      <4> QED
        BY <4>3, <4>4, <4>5
    <3> QED
      BY <3>1, <3>2
  <2>4. Typed(nu, pa, s, rest, mp, busy, pfcs)
    BY <1>1, <1>7 DEF Typed
  <2> QED
    BY <1>1, <1>9, <2>1, <2>2, <2>3, <2>4 DEF LinkState
<1>11. ASSUME na[q] # pa[q]
       PROVE  LinkState(nu, na, s, rest, mp, busy + PfcSize,
                        pfcs \cup {NewPfc(q, na[q], busy)})
  <2> DEFINE g == NewPfc(q, na[q], busy)
             all == pfcs \cup {g}
  <2>1. na[q] = TRUE /\ pa[q] = FALSE
    BY <1>7, <1>11
  <2>2. /\ u[q] = 0 /\ nu[q] = f.pkt.size /\ f.pkt.size \in Nat /\ f.pkt.size <= MaxSize
        /\ 2 * PfcSize <= f.pkt.size
    <3>1. u[q] = 0
      BY <1>1, <1>6, <2>1 DEF HeadroomClock, q
    <3> QED
      BY <1>4, <1>7, <2>1, <3>1
  <2>3. /\ g \in PfcFrame /\ g.q = q /\ g.pause = TRUE /\ g.eta = busy + PfcSize + Delay
        /\ q \in DataQueues
    <3>1. g = [q |-> q, pause |-> TRUE, eta |-> busy + PfcSize + Delay]
      BY <2>1 DEF NewPfc
    <3>2. q \in DataQueues /\ busy + PfcSize + Delay \in Nat
      BY <1>2, <1>6, LinkConstants DEF q
    <3> HIDE DEF g
    <3> QED
      BY <3>1, <3>2 DEF PfcFrame
  <2> HIDE DEF g
  <2>4. na = [pa EXCEPT ![q] = TRUE]
    BY <1>2, <1>7, <2>1
  <2>5. Tells(g, pa, na, busy)
    BY <2>1, <2>3, <2>4 DEF Tells
  <2>6. /\ InOrder(busy + PfcSize, pfcs \cup {g}) /\ Told(na, mp, pfcs \cup {g})
        /\ Alternate(mp, pfcs \cup {g})
        /\ \A h \in pfcs : h.q = g.q => ~Last(pfcs \cup {g}, h)
        /\ \A h \in pfcs : h.q # g.q => (Last(pfcs \cup {g}, h) <=> Last(pfcs, h))
    BY <1>1, <1>2, <2>5, PfcSent
  <2>7. Cost(na) = Cost(pa) + PfcSize /\ Cost(pa) \in Nat
    BY <1>2, <2>1, <2>3, <2>4, CostPaused, CostType
  <2>8. busy + Cost(pa) <= MaxAhead + AllCost
    <3>1. \/ busy + Cost(pa) <= MaxAhead + AllCost
          \/ busy + Cost(pa) + f.pkt.size <= MaxAhead + AllCost + 2 * PfcSize + f.eta
      BY <1>1 DEF Backlog
    <3> QED
      BY <1>2, <2>2, <2>7, <3>1, LinkConstants
  <2>9. Backlog(na, rest, busy + PfcSize)
    <3>1. busy + PfcSize + Cost(na) <= MaxAhead + AllCost + 2 * PfcSize
      BY <1>2, <2>7, <2>8, LinkConstants
    <3>2. ASSUME NEW k \in rest
          PROVE  busy + PfcSize + Cost(na) + k.pkt.size
                   <= MaxAhead + AllCost + 2 * PfcSize + k.eta
      <4>1. k.pkt.size <= k.eta /\ k.pkt.size \in Nat /\ k.eta \in Nat
        BY <1>3, <1>4, <1>8
      <4> QED
        BY <1>2, <2>7, <3>1, <4>1, LinkConstants
    <3> QED
      BY <3>1, <3>2 DEF Backlog
  <2>10. HeadroomClock(nu, na, rest, all)
    <3> SUFFICES ASSUME NEW x \in DataQueues
                 PROVE  /\ ~na[x] => nu[x] = 0
                        /\ \A h \in all : h.q = x /\ h.pause /\ Last(all, h) =>
                             /\ nu[x] + h.eta <= Entry
                             /\ \A k \in rest : nu[x] + h.eta + k.pkt.size <= Entry + k.eta
                        /\ (\A h \in all : h.q # x) =>
                             \A k, h \in rest : h.pkt.qIndex = x =>
                               nu[x] + k.pkt.size + h.eta <= Entry + MaxSize + Delay + k.eta
      BY DEF HeadroomClock
    <3>1. CASE x = q
      <4>1. na[x] /\ g \in all /\ g.q = x
        BY <2>1, <2>3, <3>1
      <4>2. \A h \in all : h.q = x /\ Last(all, h) => h = g
        BY <2>3, <2>6, <3>1
      <4>3. nu[x] + g.eta <= Entry
        BY <1>2, <2>2, <2>3, <2>7, <2>8, <3>1, LinkConstants DEF Entry
      <4>4. ASSUME NEW k \in rest
            PROVE  nu[x] + g.eta + k.pkt.size <= Entry + k.eta
        <5>1. k.pkt.size <= k.eta /\ k.pkt.size \in Nat /\ k.eta \in Nat
          BY <1>3, <1>4, <1>8
        <5>2. nu[x] \in Nat /\ g.eta \in Nat
          BY <2>2, <2>3, <3>1 DEF PfcFrame
        <5> QED
          BY <4>3, <5>1, <5>2, LinkConstants
      <4> HIDE DEF all
      <4> QED
        BY <4>1, <4>2, <4>3, <4>4
    <3>2. CASE x # q
      <4>1. nu[x] = u[x] /\ na[x] = pa[x]
        BY <1>7, <3>2
      <4>2. \A h \in all : h.q = x => h \in pfcs /\ (Last(all, h) <=> Last(pfcs, h))
        BY <2>3, <2>6, <3>2
      <4>3. (\A h \in all : h.q # x) => \A h \in pfcs : h.q # x
        OBVIOUS
      <4> HIDE DEF all
      <4> QED
        BY <1>1, <4>1, <4>2, <4>3 DEF HeadroomClock
    <3> QED
      BY <3>1, <3>2
  <2>11. Typed(nu, na, s, rest, mp, busy + PfcSize, all)
    BY <1>1, <1>7, <2>3, LinkConstants DEF Typed
  <2> QED
    BY <1>9, <2>6, <2>9, <2>10, <2>11 DEF LinkState, g
<1> QED
  BY <1>10, <1>11 DEF q

-------------------------------------------------------------------------------
(* The sender, and time *)

\* The sender starts a packet of a priority that it has not paused.
LEMMA PacketSent ==
  ASSUME NEW u, NEW pa, NEW fr, NEW mp, NEW busy, NEW pfcs,
         LinkState(u, pa, 0, fr, mp, busy, pfcs),
         NEW p \in LinkPackets, p.qIndex \notin mp
  PROVE  LinkState(u, pa, p.size, fr \cup {[pkt |-> p, eta |-> p.size + Delay]},
                   mp, busy, pfcs)
<1> DEFINE n == [pkt |-> p, eta |-> p.size + Delay]
           all == fr \cup {n}
<1>1. /\ Typed(u, pa, 0, fr, mp, busy, pfcs) /\ OnWire(0, fr) /\ InOrder(busy, pfcs)
      /\ Told(pa, mp, pfcs) /\ Alternate(mp, pfcs) /\ Backlog(pa, fr, busy)
      /\ HeadroomClock(u, pa, fr, pfcs)
  BY DEF LinkState
<1>2. /\ u \in [DataQueues -> Nat] /\ pa \in [DataQueues -> BOOLEAN]
      /\ fr \in SUBSET Frame /\ busy \in Nat /\ pfcs \in SUBSET PfcFrame
  BY <1>1 DEF Typed
<1>3. \A k \in fr : k.pkt \in LinkPackets /\ k.eta \in Nat /\ k.eta <= Delay
  BY <1>1, <1>2, LinkConstants DEF Frame, OnWire
<1>4. \A k \in fr : k.pkt.size \in Nat /\ k.pkt.size <= MaxSize
  BY <1>3, LinkPacketFields
<1>5. /\ p.size \in Nat /\ p.size > 0 /\ p.size <= MaxSize /\ p.qIndex \in DataQueues
      /\ n.pkt = p /\ n.eta = p.size + Delay /\ n.eta \in Nat /\ n \in Frame
  BY LinkPacketFields, LinkConstants DEF Frame
<1> HIDE DEF n
<1>6. \A k \in all : /\ k.pkt.size \in Nat /\ k.pkt.size <= MaxSize /\ k.eta \in Nat
  BY <1>3, <1>4, <1>5
<1>7. OnWire(p.size, all)
  <2>1. \A k \in all : k.eta <= p.size + Delay
    BY <1>3, <1>5, LinkConstants
  <2>2. \A k \in fr : k.eta + n.pkt.size <= n.eta
    BY <1>3, <1>5, LinkConstants
  <2> QED
    BY <1>1, <1>5, <2>1, <2>2 DEF OnWire
<1>8. Typed(u, pa, p.size, all, mp, busy, pfcs)
  BY <1>1, <1>5 DEF Typed
<1>9. Backlog(pa, all, busy)
  <2>1. busy + Cost(pa) + n.pkt.size <= MaxAhead + AllCost + 2 * PfcSize + n.eta
    BY <1>1, <1>2, <1>5, CostType, LinkConstants DEF Backlog
  <2> QED
    BY <1>1, <2>1 DEF Backlog
<1>10. HeadroomClock(u, pa, all, pfcs)
  <2> SUFFICES ASSUME NEW x \in DataQueues
               PROVE  /\ ~pa[x] => u[x] = 0
                      /\ \A g \in pfcs : g.q = x /\ g.pause /\ Last(pfcs, g) =>
                           /\ u[x] + g.eta <= Entry
                           /\ \A k \in all : u[x] + g.eta + k.pkt.size <= Entry + k.eta
                      /\ (\A g \in pfcs : g.q # x) =>
                           \A k, h \in all : h.pkt.qIndex = x =>
                             u[x] + k.pkt.size + h.eta <= Entry + MaxSize + Delay + k.eta
    BY DEF HeadroomClock
  <2>1. /\ ~pa[x] => u[x] = 0
        /\ u[x] \in Nat
    BY <1>1, <1>2 DEF HeadroomClock
  <2>2. ASSUME NEW g \in pfcs, g.q = x, g.pause, Last(pfcs, g)
        PROVE  /\ u[x] + g.eta <= Entry
               /\ \A k \in all : u[x] + g.eta + k.pkt.size <= Entry + k.eta
    <3>1. /\ u[x] + g.eta <= Entry
          /\ \A k \in fr : u[x] + g.eta + k.pkt.size <= Entry + k.eta
          /\ g.eta \in Nat
      BY <1>1, <1>2, <2>2 DEF HeadroomClock, PfcFrame
    <3>2. u[x] + g.eta + n.pkt.size <= Entry + n.eta
      BY <1>5, <2>1, <3>1, LinkConstants
    <3> QED
      BY <3>1, <3>2
  <2>3. ASSUME \A g \in pfcs : g.q # x, NEW k \in all, NEW h \in all, h.pkt.qIndex = x
        PROVE  u[x] + k.pkt.size + h.eta <= Entry + MaxSize + Delay + k.eta
    <3>1. CASE h = n
      <4>1. u[x] = 0
        BY <1>1, <1>5, <2>1, <2>3, <3>1 DEF Told
      <4>2. h.eta <= MaxSize + Delay /\ MaxSize <= Entry
        BY <1>5, <3>1, LinkConstants DEF Entry
      <4> QED
        BY <1>6, <4>1, <4>2, LinkConstants
    <3>2. CASE h \in fr
      <4>1. u[x] + h.pkt.size + h.eta <= Entry + MaxSize + Delay + h.eta
        BY <1>1, <2>3, <3>2 DEF HeadroomClock
      <4>2. CASE k \in fr
        BY <1>1, <2>3, <3>2, <4>2 DEF HeadroomClock
      <4>3. CASE k = n
        BY <1>3, <1>4, <1>5, <2>1, <3>2, <4>1, <4>3, LinkConstants
      <4> QED
        BY <4>2, <4>3
    <3> QED
      BY <3>1, <3>2
  <2> QED
    BY <2>1, <2>2, <2>3
<1> QED
  BY <1>1, <1>7, <1>8, <1>9, <1>10 DEF LinkState, n

\* A frame a time unit later.
Nearer(f) == [f EXCEPT !.eta = @ - 1]

\* Time passes, with no arrival due.
LEMMA TimePassed ==
  ASSUME NEW u, NEW pa, NEW s, NEW fr, NEW mp, NEW busy, NEW pfcs,
         LinkState(u, pa, s, fr, mp, busy, pfcs),
         \A f \in fr \cup pfcs : f.eta > 0
  PROVE  LinkState(u, pa, Earlier(s), {Nearer(f) : f \in fr}, mp,
                   Earlier(busy), {Nearer(g) : g \in pfcs})
<1> DEFINE t == Earlier(s)
           b == Earlier(busy)
           fs == {Nearer(f) : f \in fr}
           gs == {Nearer(g) : g \in pfcs}
<1>1. /\ Typed(u, pa, s, fr, mp, busy, pfcs) /\ OnWire(s, fr) /\ InOrder(busy, pfcs)
      /\ Told(pa, mp, pfcs) /\ Alternate(mp, pfcs) /\ Backlog(pa, fr, busy)
      /\ HeadroomClock(u, pa, fr, pfcs)
  BY DEF LinkState
<1>2. /\ u \in [DataQueues -> Nat] /\ pa \in [DataQueues -> BOOLEAN]
      /\ fr \in SUBSET Frame /\ busy \in Nat /\ pfcs \in SUBSET PfcFrame /\ s \in Nat
  BY <1>1 DEF Typed
<1>3. /\ t \in Nat /\ b \in Nat /\ t <= s /\ s <= t + 1 /\ b <= busy /\ busy <= b + 1
  BY <1>2 DEF Earlier
<1>4. \A f \in fr : /\ Nearer(f) \in Frame /\ Nearer(f).pkt = f.pkt
                    /\ Nearer(f).eta = f.eta - 1 /\ f.eta \in Nat
  BY <1>2 DEF Nearer, Frame
<1>5. \A g \in pfcs : /\ Nearer(g) \in PfcFrame /\ Nearer(g).q = g.q
                      /\ Nearer(g).pause = g.pause /\ Nearer(g).eta = g.eta - 1
                      /\ g.eta \in Nat
  BY <1>2 DEF Nearer, PfcFrame
<1>6. \A f \in fr : f.pkt.size \in Nat
  BY <1>2, LinkPacketFields DEF Frame
<1> HIDE DEF t, b
<1>7. \A g \in pfcs : Last(gs, Nearer(g)) <=> Last(pfcs, g)
  BY <1>5 DEF Last
<1>8. Typed(u, pa, t, fs, mp, b, gs)
  BY <1>1, <1>3, <1>4, <1>5 DEF Typed
<1>9. OnWire(t, fs)
  <2>1. t <= MaxSize
    BY <1>1, <1>2, <1>3, LinkConstants DEF OnWire
  <2>2. \A f \in fr : f.eta - 1 <= t + Delay
    BY <1>1, <1>2, <1>3, <1>4, LinkConstants DEF OnWire
  <2>3. \A f, g \in fr : Nearer(f) # Nearer(g) =>
          \/ Nearer(f).eta + Nearer(g).pkt.size <= Nearer(g).eta
          \/ Nearer(g).eta + Nearer(f).pkt.size <= Nearer(f).eta
    BY <1>1, <1>4, <1>6 DEF OnWire
  <2> QED
    BY <1>4, <2>1, <2>2, <2>3 DEF OnWire
<1>10. InOrder(b, gs)
  <2>1. \A g \in pfcs : g.eta - 1 <= b + Delay
    BY <1>1, <1>2, <1>3, <1>5, LinkConstants DEF InOrder
  <2>2. \A g, h \in pfcs : g.eta - 1 = h.eta - 1 => g = h
    BY <1>1, <1>5 DEF InOrder
  <2> QED
    BY <1>5, <2>1, <2>2 DEF InOrder
<1>11. Told(pa, mp, gs)
  BY <1>1, <1>5, <1>7 DEF Told
<1>12. Alternate(mp, gs)
  <2> SUFFICES ASSUME NEW g \in pfcs, ~g.pause
               PROVE  \/ /\ g.q \in mp
                         /\ \A h \in gs : h.q = g.q /\ h.eta < g.eta - 1 => h.pause
                      \/ \E h \in gs :
                           /\ h.q = g.q /\ h.pause /\ h.eta < g.eta - 1
                           /\ \A k \in gs :
                                k.q = g.q /\ h.eta < k.eta /\ k.eta < g.eta - 1 => k.pause
    BY <1>5 DEF Alternate
  <2>1. CASE g.q \in mp /\ \A h \in pfcs : h.q = g.q /\ h.eta < g.eta => h.pause
    BY <1>5, <2>1
  <2>2. CASE \E h \in pfcs :
               /\ h.q = g.q /\ h.pause /\ h.eta < g.eta
               /\ \A k \in pfcs : k.q = g.q /\ h.eta < k.eta /\ k.eta < g.eta => k.pause
    BY <1>5, <2>2
  <2> QED
    BY <1>1, <2>1, <2>2 DEF Alternate
<1>13. Backlog(pa, fs, b)
  <2>1. Cost(pa) \in Nat /\ Cost(pa) <= AllCost
    BY <1>2, CostType
  <2>2. b + Cost(pa) <= MaxAhead + AllCost + 2 * PfcSize
    BY <1>1, <1>2, <1>3, <2>1, LinkConstants DEF Backlog
  <2>3. ASSUME NEW f \in fr
        PROVE  \/ b + Cost(pa) <= MaxAhead + AllCost
               \/ b + Cost(pa) + f.pkt.size <= MaxAhead + AllCost + 2 * PfcSize + (f.eta - 1)
    <3>1. CASE busy = 0
      BY <1>3, <2>1, <3>1, LinkConstants
    <3>2. CASE busy # 0
      <4>1. b = busy - 1
        BY <1>2, <3>2 DEF Earlier, b
      <4>2. \/ busy + Cost(pa) <= MaxAhead + AllCost
            \/ busy + Cost(pa) + f.pkt.size <= MaxAhead + AllCost + 2 * PfcSize + f.eta
        BY <1>1 DEF Backlog
      <4> QED
        BY <1>2, <1>4, <1>6, <2>1, <4>1, <4>2, LinkConstants
    <3> QED
      BY <3>1, <3>2
  <2> QED
    BY <1>4, <2>2, <2>3 DEF Backlog
<1>14. HeadroomClock(u, pa, fs, gs)
  <2> SUFFICES ASSUME NEW x \in DataQueues
               PROVE  /\ ~pa[x] => u[x] = 0
                      /\ \A g \in gs : g.q = x /\ g.pause /\ Last(gs, g) =>
                           /\ u[x] + g.eta <= Entry
                           /\ \A k \in fs : u[x] + g.eta + k.pkt.size <= Entry + k.eta
                      /\ (\A g \in gs : g.q # x) =>
                           \A k, h \in fs : h.pkt.qIndex = x =>
                             u[x] + k.pkt.size + h.eta <= Entry + MaxSize + Delay + k.eta
    BY DEF HeadroomClock
  <2>1. /\ ~pa[x] => u[x] = 0
        /\ u[x] \in Nat
    BY <1>1, <1>2 DEF HeadroomClock
  <2>2. ASSUME NEW g \in pfcs, g.q = x, g.pause, Last(pfcs, g)
        PROVE  /\ u[x] + (g.eta - 1) <= Entry
               /\ \A k \in fr : u[x] + (g.eta - 1) + k.pkt.size <= Entry + (k.eta - 1)
    <3>1. /\ u[x] + g.eta <= Entry
          /\ \A k \in fr : u[x] + g.eta + k.pkt.size <= Entry + k.eta
      BY <1>1, <2>2 DEF HeadroomClock
    <3> QED
      BY <1>4, <1>5, <1>6, <2>1, <3>1, LinkConstants
  <2>3. ASSUME \A g \in pfcs : g.q # x, NEW k \in fr, NEW h \in fr, h.pkt.qIndex = x
        PROVE  u[x] + k.pkt.size + (h.eta - 1) <= Entry + MaxSize + Delay + (k.eta - 1)
    <3>1. u[x] + k.pkt.size + h.eta <= Entry + MaxSize + Delay + k.eta
      BY <1>1, <2>3 DEF HeadroomClock
    <3> QED
      BY <1>4, <1>6, <2>1, <3>1, LinkConstants
  <2>4. (\A g \in gs : g.q # x) => \A g \in pfcs : g.q # x
    BY <1>5
  <2>5. \A g \in gs : g.q = x /\ g.pause /\ Last(gs, g) =>
          /\ u[x] + g.eta <= Entry
          /\ \A k \in fs : u[x] + g.eta + k.pkt.size <= Entry + k.eta
    <3> SUFFICES ASSUME NEW g \in pfcs, g.q = x, g.pause, Last(pfcs, g)
                 PROVE  /\ u[x] + (g.eta - 1) <= Entry
                        /\ \A k \in fs : u[x] + (g.eta - 1) + k.pkt.size <= Entry + k.eta
      BY <1>5, <1>7
    <3> QED
      BY <1>4, <2>2
  <2>6. (\A g \in gs : g.q # x) =>
          \A k, h \in fs : h.pkt.qIndex = x =>
            u[x] + k.pkt.size + h.eta <= Entry + MaxSize + Delay + k.eta
    BY <1>4, <2>3, <2>4
  <2> QED
    BY <2>1, <2>5, <2>6
<1> QED
  BY <1>8, <1>9, <1>10, <1>11, <1>12, <1>13, <1>14 DEF LinkState, t, b

-------------------------------------------------------------------------------
(* The counters of the MMU as the link sees them *)

\* Every priority of the link is a queue of the MMU.
LEMMA ViewTypes ==
  ASSUME NEW m \in MmuType
  PROVE  /\ \A q \in DataQueues : <<Link, q>> \in PortQueue
         /\ UsedOf(m) \in [DataQueues -> Nat] /\ PausedOf(m) \in [DataQueues -> BOOLEAN]
         /\ \A q \in DataQueues : /\ UsedOf(m)[q] = m.xoffUsed[<<Link, q>>]
                                 /\ PausedOf(m)[q] = m.paused[<<Link, q>>]
<1>1. \A q \in DataQueues : <<Link, q>> \in PortQueue
  BY LinkConfiguration DEF PortQueue, DataQueues
<1>2. m.xoffUsed \in [PortQueue -> Nat] /\ m.paused \in [PortQueue -> BOOLEAN]
  BY DEF MmuType
<1> QED
  BY <1>1, <1>2 DEF UsedOf, PausedOf

\* The changes of one queue of the link, told by the device.
LEMMA TellView ==
  ASSUME NEW m \in MmuType, NEW n \in MmuType, NEW q \in DataQueues,
         NEW s, NEW fr, NEW mp, NEW b, b = [busy |-> b.busy, pfcs |-> b.pfcs],
         IF PausedOf(n)[q] = PausedOf(m)[q]
         THEN LinkState(UsedOf(n), PausedOf(n), s, fr, mp, b.busy, b.pfcs)
         ELSE LinkState(UsedOf(n), PausedOf(n), s, fr, mp, b.busy + PfcSize,
                        b.pfcs \cup {NewPfc(q, PausedOf(n)[q], b.busy)})
  PROVE  LinkView(n, s, fr, mp, Tell(b, q, m, n))
<1>1. PausedOf(m)[q] = m.paused[<<Link, q>>] /\ PausedOf(n)[q] = n.paused[<<Link, q>>]
  BY ViewTypes
<1>2. CASE PausedOf(n)[q] = PausedOf(m)[q]
  BY <1>1, <1>2 DEF Tell, LinkView
<1>3. CASE PausedOf(n)[q] # PausedOf(m)[q]
  <2> DEFINE c == SendPfc(b, q, n.paused[<<Link, q>>])
  <2>1. Tell(b, q, m, n) = c
    BY <1>1, <1>3 DEF Tell
  <2>2. /\ c = [busy |-> c.busy, pfcs |-> c.pfcs] /\ c.busy = b.busy + PfcSize
        /\ c.pfcs = b.pfcs \cup {NewPfc(q, PausedOf(n)[q], b.busy)}
    BY <1>1 DEF SendPfc, NewPfc
  <2> HIDE DEF c
  <2> QED
    BY <1>3, <2>1, <2>2 DEF LinkView
<1> QED
  BY <1>2, <1>3

\* A packet that arrives at the link is admitted.
LEMMA FrameAdmitted ==
  ASSUME NEW m \in MmuType, NEW s, NEW fr, NEW mp, NEW b, LinkView(m, s, fr, mp, b),
         NEW f \in fr, f.eta = 0
  PROVE  LinkView(Admitted(m, f.pkt), s, fr \ {f}, mp,
                  Tell(b, f.pkt.qIndex, m, Admitted(m, f.pkt)))
<1> DEFINE p == f.pkt
           q == p.qIndex
           n == Admitted(m, p)
           d == HeadroomCharge(AfterChecks(m, p), p)
<1>1. f \in Frame
  BY DEF LinkView, LinkState, Typed
<1>2. p \in LinkPackets
  BY <1>1 DEF Frame
<1> HIDE DEF p
<1>3. p \in Packets /\ In(p) = <<Link, q>> /\ q \in DataQueues /\ p.size \in Nat
  BY <1>2, LinkPacketFields
<1>4. /\ n \in MmuType /\ AdmittedCounters(n, m, p, d) /\ d \in {0, p.size}
      /\ d # 0 => p.type = LOSSLESS
  BY <1>3, AdmittedStep
<1> HIDE DEF n, d
<1>5. /\ n.xoffUsed = [m.xoffUsed EXCEPT ![In(p)] = @ + d]
      /\ n.paused = [m.paused EXCEPT ![In(p)] = @ \/ n.xoffUsed[In(p)] > 0]
  BY <1>4 DEF AdmittedCounters
<1>6. /\ UsedOf(n) \in [DataQueues -> Nat] /\ PausedOf(n) \in [DataQueues -> BOOLEAN]
      /\ \A x \in DataQueues : /\ UsedOf(n)[x] = n.xoffUsed[<<Link, x>>]
                              /\ PausedOf(n)[x] = n.paused[<<Link, x>>]
                              /\ UsedOf(m)[x] = m.xoffUsed[<<Link, x>>]
                              /\ PausedOf(m)[x] = m.paused[<<Link, x>>]
                              /\ <<Link, x>> \in PortQueue
  BY <1>4, ViewTypes
<1>7. m.xoffUsed \in [PortQueue -> Nat] /\ m.paused \in [PortQueue -> BOOLEAN]
  BY DEF MmuType
<1>8. \A x \in DataQueues \ {q} :
        UsedOf(n)[x] = UsedOf(m)[x] /\ PausedOf(n)[x] = PausedOf(m)[x]
  <2> SUFFICES ASSUME NEW x \in DataQueues, x # q
               PROVE  UsedOf(n)[x] = UsedOf(m)[x] /\ PausedOf(n)[x] = PausedOf(m)[x]
    OBVIOUS
  <2>1. <<Link, x>> # In(p) /\ <<Link, x>> \in PortQueue
    BY <1>3, <1>6
  <2>2. n.xoffUsed[<<Link, x>>] = m.xoffUsed[<<Link, x>>]
    BY <1>5, <1>7, <2>1
  <2>3. n.paused[<<Link, x>>] = m.paused[<<Link, x>>]
    BY <1>5, <1>7, <2>1
  <2> QED
    BY <1>6, <2>2, <2>3
<1>9. UsedOf(n)[q] = UsedOf(m)[q] + d /\ UsedOf(m)[q] \in Nat
  BY <1>3, <1>5, <1>6, <1>7
<1>10. PausedOf(n)[q] <=> PausedOf(m)[q] \/ UsedOf(n)[q] > 0
  <2>1. n.paused[In(p)] = (m.paused[In(p)] \/ n.xoffUsed[In(p)] > 0)
    BY <1>3, <1>5, <1>6, <1>7
  <2> QED
    BY <1>3, <1>6, <2>1
<1>11. Enters(f, UsedOf(m), PausedOf(m), UsedOf(n), PausedOf(n))
  <2>1. \/ UsedOf(n)[q] = UsedOf(m)[q]
        \/ p.type = LOSSLESS /\ UsedOf(n)[q] = UsedOf(m)[q] + p.size
    <3>1. CASE d = 0
      BY <1>9, <3>1
    <3>2. CASE d # 0
      BY <1>3, <1>4, <1>9, <3>2
    <3> QED
      BY <3>1, <3>2
  <2> QED
    BY <1>6, <1>8, <1>10, <2>1 DEF Enters, p
<1>12. IF PausedOf(n)[q] = PausedOf(m)[q]
       THEN LinkState(UsedOf(n), PausedOf(n), s, fr \ {f}, mp, b.busy, b.pfcs)
       ELSE LinkState(UsedOf(n), PausedOf(n), s, fr \ {f}, mp, b.busy + PfcSize,
                      b.pfcs \cup {NewPfc(q, PausedOf(n)[q], b.busy)})
  BY <1>11, PacketArrived DEF LinkView, p
<1>13. b = [busy |-> b.busy, pfcs |-> b.pfcs]
  BY DEF LinkView
<1>14. LinkView(n, s, fr \ {f}, mp, Tell(b, q, m, n))
  <2> HIDE DEF q
  <2> QED
    BY <1>3, <1>4, <1>12, <1>13, TellView
<1> QED
  BY <1>14 DEF n, p

\* A packet that arrives at the link is dropped, or found corrupted.
LEMMA FrameDropped ==
  ASSUME NEW m \in MmuType, HeadroomPauses(m), NEW n,
         UsedOf(n) = UsedOf(m), PausedOf(n) = PausedOf(m),
         NEW s, NEW fr, NEW mp, NEW b, LinkView(m, s, fr, mp, b),
         NEW f \in fr, f.eta = 0
  PROVE  LinkView(n, s, fr \ {f}, mp, b)
<1> DEFINE u == UsedOf(m)
           pa == PausedOf(m)
           q == f.pkt.qIndex
<1>1. f \in Frame
  BY DEF LinkView, LinkState, Typed
<1>2. q \in DataQueues
  BY <1>1, LinkPacketFields DEF Frame
<1>3. u \in [DataQueues -> Nat] /\ pa \in [DataQueues -> BOOLEAN]
  BY ViewTypes
<1>4. pa[q] <=> pa[q] \/ u[q] > 0
  BY <1>2, ViewTypes DEF HeadroomPauses
<1> HIDE DEF u, pa
<1>5. Enters(f, u, pa, u, pa)
  BY <1>3, <1>4, Zenon DEF Enters
<1>6. LinkState(u, pa, s, fr \ {f}, mp, b.busy, b.pfcs)
  BY <1>5, PacketArrived DEF LinkView, u, pa
<1> QED
  BY <1>6 DEF LinkView, u, pa

\* A packet of the link is dequeued.
LEMMA LinkReleased ==
  ASSUME NEW m \in MmuType, NEW p \in LinkPackets, Counted(m, p),
         NEW s, NEW fr, NEW mp, NEW b, LinkView(m, s, fr, mp, b)
  PROVE  LinkView(Released(m, p), s, fr, mp, Tell(b, p.qIndex, m, Released(m, p)))
<1> DEFINE q == p.qIndex
           n == Released(m, p)
           h == HeadroomReturned(m, p)
           v == UsedOf(n)[q]
           z == PausedOf(n)[q]
<1>1. p \in Packets /\ In(p) = <<Link, q>> /\ q \in DataQueues
  BY LinkPacketFields
<1>2. n \in MmuType /\ ReleasedCounters(n, m, p, h) /\ PausedAfterRelease(n, m, p)
  BY <1>1, ReleasedStep
<1>3. h \in Nat /\ h <= m.xoffUsed[In(p)]
  BY <1>1, HeadroomReturnedType
<1> HIDE DEF n, h
<1>4. /\ UsedOf(n) \in [DataQueues -> Nat] /\ PausedOf(n) \in [DataQueues -> BOOLEAN]
      /\ UsedOf(m) \in [DataQueues -> Nat] /\ PausedOf(m) \in [DataQueues -> BOOLEAN]
      /\ \A x \in DataQueues : /\ UsedOf(n)[x] = n.xoffUsed[<<Link, x>>]
                              /\ PausedOf(n)[x] = n.paused[<<Link, x>>]
                              /\ UsedOf(m)[x] = m.xoffUsed[<<Link, x>>]
                              /\ PausedOf(m)[x] = m.paused[<<Link, x>>]
                              /\ <<Link, x>> \in PortQueue
  BY <1>2, ViewTypes
<1>5. n.xoffUsed = [m.xoffUsed EXCEPT ![In(p)] = @ - h] /\ m.xoffUsed \in [PortQueue -> Nat]
  BY <1>2 DEF ReleasedCounters, MmuType
<1>6. \A x \in DataQueues \ {q} :
        UsedOf(n)[x] = UsedOf(m)[x] /\ PausedOf(n)[x] = PausedOf(m)[x]
  <2> SUFFICES ASSUME NEW x \in DataQueues, x # q
               PROVE  UsedOf(n)[x] = UsedOf(m)[x] /\ PausedOf(n)[x] = PausedOf(m)[x]
    OBVIOUS
  <2>1. <<Link, x>> # In(p) /\ <<Link, x>> \in PortQueue
    BY <1>1, <1>4
  <2>2. n.xoffUsed[<<Link, x>>] = m.xoffUsed[<<Link, x>>]
    BY <1>5, <2>1
  <2>3. n.paused[<<Link, x>>] = m.paused[<<Link, x>>]
    BY <1>2, <2>1 DEF PausedAfterRelease
  <2> QED
    BY <1>4, <2>2, <2>3
<1>7. v \in Nat /\ v <= UsedOf(m)[q]
  BY <1>1, <1>3, <1>4, <1>5
<1>8. z \in BOOLEAN /\ (z => PausedOf(m)[q]) /\ (v > 0 => z = PausedOf(m)[q])
  BY <1>1, <1>2, <1>4 DEF PausedAfterRelease
<1>9. Empties(q, UsedOf(m), PausedOf(m), UsedOf(n), PausedOf(n))
  BY <1>4, <1>6, <1>7, <1>8 DEF Empties
<1>10. IF PausedOf(n)[q] = PausedOf(m)[q]
       THEN LinkState(UsedOf(n), PausedOf(n), s, fr, mp, b.busy, b.pfcs)
       ELSE LinkState(UsedOf(n), PausedOf(n), s, fr, mp, b.busy + PfcSize,
                      b.pfcs \cup {NewPfc(q, PausedOf(n)[q], b.busy)})
  <2> HIDE DEF q
  <2> QED
    BY <1>1, <1>9, QueueLeft DEF LinkView
<1>11. b = [busy |-> b.busy, pfcs |-> b.pfcs]
  BY DEF LinkView
<1>12. LinkView(n, s, fr, mp, Tell(b, q, m, n))
  <2> HIDE DEF q
  <2> QED
    BY <1>1, <1>2, <1>10, <1>11, TellView
<1> QED
  BY <1>12 DEF n

\* Packets of other links do not touch this one's queues.
LEMMA ElsewhereView ==
  ASSUME NEW m \in MmuType, NEW p \in Packets, p.inDev # Link
  PROVE  /\ UsedOf(Admitted(m, p)) = UsedOf(m)
         /\ PausedOf(Admitted(m, p)) = PausedOf(m)
         /\ Counted(m, p) => /\ UsedOf(Released(m, p)) = UsedOf(m)
                             /\ PausedOf(Released(m, p)) = PausedOf(m)
<1> DEFINE a == Admitted(m, p)
           r == Released(m, p)
<1>1. /\ \A q \in DataQueues : <<Link, q>> \in PortQueue /\ <<Link, q>> # In(p)
      /\ In(p) \in PortQueue
  BY ViewTypes, PacketFields DEF In
<1>2. m.xoffUsed \in [PortQueue -> Nat] /\ m.paused \in [PortQueue -> BOOLEAN]
  BY DEF MmuType
<1>3. AdmittedCounters(a, m, p, HeadroomCharge(AfterChecks(m, p), p))
  BY AdmittedStep
<1>4. ASSUME Counted(m, p)
      PROVE  ReleasedCounters(r, m, p, HeadroomReturned(m, p)) /\ PausedAfterRelease(r, m, p)
  BY <1>4, ReleasedStep
<1> HIDE DEF a, r
<1>5. UsedOf(a) = UsedOf(m) /\ PausedOf(a) = PausedOf(m)
  <2>1. \A q \in DataQueues : a.xoffUsed[<<Link, q>>] = m.xoffUsed[<<Link, q>>]
    BY <1>1, <1>2, <1>3 DEF AdmittedCounters
  <2>2. \A q \in DataQueues : a.paused[<<Link, q>>] = m.paused[<<Link, q>>]
    BY <1>1, <1>2, <1>3 DEF AdmittedCounters
  <2> QED
    BY <2>1, <2>2 DEF UsedOf, PausedOf
<1>6. ASSUME Counted(m, p)
      PROVE  UsedOf(r) = UsedOf(m) /\ PausedOf(r) = PausedOf(m)
  <2>1. \A q \in DataQueues : r.xoffUsed[<<Link, q>>] = m.xoffUsed[<<Link, q>>]
    BY <1>1, <1>2, <1>4, <1>6 DEF ReleasedCounters
  <2>2. \A q \in DataQueues : r.paused[<<Link, q>>] = m.paused[<<Link, q>>]
    BY <1>1, <1>4, <1>6 DEF PausedAfterRelease
  <2> QED
    BY <2>1, <2>2 DEF UsedOf, PausedOf
<1> QED
  BY <1>5, <1>6 DEF a, r

-------------------------------------------------------------------------------
(* The specification *)

LEMMA InitLink == LinkInit => LinkInv
<1> SUFFICES ASSUME LinkInit PROVE LinkInv
  OBVIOUS
<1> DEFINE u == UsedOf(NewMmu)
           pa == PausedOf(NewMmu)
<1>1. Inv
  BY InitAccounts DEF LinkInit, Init, Inv
<1>2. /\ u \in [DataQueues -> Nat] /\ pa \in [DataQueues -> BOOLEAN]
      /\ \A q \in DataQueues : u[q] = 0 /\ pa[q] = FALSE
  BY NewMmuType, ViewTypes DEF NewMmu
<1> HIDE DEF u, pa
<1>3. Typed(u, pa, 0, {}, {}, 0, {})
  BY <1>2 DEF Typed
<1>4. OnWire(0, {}) /\ InOrder(0, {})
  BY LinkConstants DEF OnWire, InOrder
<1>5. Told(pa, {}, {}) /\ Alternate({}, {})
  BY <1>2 DEF Told, Alternate
<1>6. Backlog(pa, {}, 0)
  BY <1>2, CostType, LinkConstants DEF Backlog
<1>7. HeadroomClock(u, pa, {}, {})
  BY <1>2 DEF HeadroomClock
<1>8. LinkState(u, pa, 0, {}, {}, 0, {})
  BY <1>3, <1>4, <1>5, <1>6, <1>7 DEF LinkState
<1>9. LinkView(mmu, sending, frames, m_paused, back)
  BY <1>8 DEF LinkView, LinkInit, Init, u, pa
<1> QED
  BY <1>1, <1>9 DEF LinkInv

\* Every step of the link preserves the invariant.
LEMMA LinkStep == LinkInv /\ [LinkNext]_linkVars => LinkInv'
<1> SUFFICES ASSUME LinkInv, [LinkNext]_linkVars
             PROVE  LinkInv'
  OBVIOUS
<1>1. /\ Inv /\ Accounts(mmu, held) /\ mmu \in MmuType /\ HeadroomPauses(mmu)
      /\ LinkView(mmu, sending, frames, m_paused, back)
      /\ LinkState(UsedOf(mmu), PausedOf(mmu), sending, frames, m_paused,
                   back.busy, back.pfcs)
      /\ back = [busy |-> back.busy, pfcs |-> back.pfcs]
  BY DEF LinkInv, Inv, Accounts, Holds, LinkView
<1>2. \A f \in frames : f.pkt \in LinkPackets /\ f.pkt \in DataPackets
  BY <1>1, LinkPacketFields DEF LinkState, Typed, Frame
<1>3. \A p \in DataPackets : p \in Packets
  BY DEF DataPackets
<1>4. \A p \in held : Counted(mmu, p)
  BY <1>1, CountedInBuffer
<1>5. ASSUME NEW p \in LinkPackets, TransmitStart(p)
      PROVE  LinkInv'
  <2>1. Inv'
    BY <1>1, <1>5 DEF TransmitStart, Inv
  <2>2. LinkState(UsedOf(mmu), PausedOf(mmu), p.size,
                  frames \cup {[pkt |-> p, eta |-> p.size + Delay]}, m_paused,
                  back.busy, back.pfcs)
    <3>1. sending = 0 /\ p.qIndex \notin m_paused
      BY <1>5 DEF TransmitStart, MaySend
    <3> QED
      BY <1>1, <3>1, PacketSent
  <2> QED
    BY <1>1, <1>5, <2>1, <2>2 DEF TransmitStart, LinkInv, LinkView
<1>6. ASSUME NEW f \in frames, Receive(f)
      PROVE  LinkInv'
  <2> DEFINE p == f.pkt
             q == p.qIndex
  <2>1. /\ p \in LinkPackets /\ p \in DataPackets /\ p \in Packets /\ f.eta = 0
        /\ frames' = frames \ {f} /\ sending' = sending /\ m_paused' = m_paused
    BY <1>2, <1>3, <1>6 DEF Receive
  <2>2. CASE Admit(p) /\ back' = Tell(back, q, mmu, mmu')
    <3>1. mmu' = Admitted(mmu, p) /\ Accounts(mmu', held')
      BY <1>1, <2>1, <2>2, AdmitPreserves DEF Admit
    <3>2. LinkView(mmu', sending, frames', m_paused, back')
      BY <1>1, <2>1, <2>2, <3>1, FrameAdmitted
    <3> QED
      BY <2>1, <3>1, <3>2 DEF LinkInv, Inv
  <2>3. CASE /\ CutThrough(p)
             /\ back' = Tell(Tell(back, q, mmu, Admitted(mmu, p)), q, Admitted(mmu, p), mmu')
    <3> DEFINE a == Admitted(mmu, p)
               b == Tell(back, q, mmu, a)
    <3>1. /\ p \notin held /\ Accounts(a, held \cup {p}) /\ mmu' = Released(a, p)
          /\ held' = held
      BY <1>1, <2>1, <2>3, AdmitPreserves DEF CutThrough
    <3>2. LinkView(a, sending, frames', m_paused, b)
      BY <1>1, <2>1, FrameAdmitted
    <3>3. Counted(a, p) /\ a \in MmuType
      BY <3>1, CountedInBuffer DEF Accounts, Holds
    <3> HIDE DEF a, b
    <3>4. LinkView(mmu', sending, frames', m_paused, Tell(b, q, a, mmu'))
      BY <2>1, <3>1, <3>2, <3>3, LinkReleased
    <3>5. Accounts(mmu', held')
      <4>1. Accounts(mmu', (held \cup {p}) \ {p})
        BY <3>1, ReleasePreserves
      <4> QED
        BY <3>1, <4>1
    <3> QED
      BY <2>1, <2>3, <3>4, <3>5 DEF LinkInv, Inv, a, b
  <2>4. CASE Drop(p) /\ UNCHANGED back
    <3>1. mmu' = AfterChecks(mmu, p) /\ held' = held /\ Accounts(mmu', held')
      BY <1>1, <2>1, <2>4, ChecksPreserve DEF Drop
    <3>2. UsedOf(mmu') = UsedOf(mmu) /\ PausedOf(mmu') = PausedOf(mmu)
      BY <1>1, <2>1, <3>1, AfterChecksCounters DEF SameCounters, UsedOf, PausedOf
    <3>3. LinkView(mmu', sending, frames', m_paused, back)
      BY <1>1, <2>1, <3>2, FrameDropped
    <3> QED
      BY <2>1, <2>4, <3>1, <3>3 DEF LinkInv, Inv
  <2>5. CASE UNCHANGED <<mmu, held, back>>
    <3>1. LinkView(mmu, sending, frames', m_paused, back)
      BY <1>1, <2>1, FrameDropped
    <3> QED
      BY <1>1, <2>1, <2>5, <3>1 DEF LinkInv, Inv
  <2> QED
    BY <1>6, <2>2, <2>3, <2>4, <2>5 DEF Receive
<1>7. ASSUME NEW g \in back.pfcs, ReceivePfc(g)
      PROVE  LinkInv'
  <2>1. /\ g.eta = 0 /\ back' = [back EXCEPT !.pfcs = @ \ {g}]
        /\ \/ m_paused' = IF g.pause THEN m_paused \cup {g.q} ELSE m_paused \ {g.q}
           \/ ~g.pause /\ m_paused' = m_paused
        /\ UNCHANGED <<mmu, held, sending, frames>>
    BY <1>7 DEF ReceivePfc
  <2>2. LinkState(UsedOf(mmu), PausedOf(mmu), sending, frames, m_paused',
                  back.busy, back.pfcs \ {g})
    BY <1>1, <2>1, PfcReceived
  <2>3. /\ back'.busy = back.busy /\ back'.pfcs = back.pfcs \ {g}
        /\ back' = [busy |-> back'.busy, pfcs |-> back'.pfcs]
    BY <1>1, <2>1
  <2> QED
    BY <1>1, <2>1, <2>2, <2>3 DEF LinkInv, Inv, LinkView
<1>8. ASSUME NEW p \in DataPackets, MayLeave(p)
      PROVE  LinkView(mmu, sending, frames, m_paused, Leaves(back, p))
  <2>1. CASE p.outDev # Link
    BY <1>1, <2>1 DEF Leaves
  <2>2. CASE p.outDev = Link
    <3>1. back.busy = 0 /\ p.size \in Nat /\ p.size <= MaxAhead
      BY <1>3, <1>8, <2>2, PacketFields, LinkConfiguration DEF MayLeave
    <3>2. LinkState(UsedOf(mmu), PausedOf(mmu), sending, frames, m_paused,
                    p.size, back.pfcs)
      BY <1>1, <3>1, DeviceBusy
    <3>3. Leaves(back, p) = [busy |-> p.size, pfcs |-> back.pfcs]
      BY <1>1, <2>2 DEF Leaves
    <3> QED
      BY <3>2, <3>3 DEF LinkView
  <2> QED
    BY <2>1, <2>2
<1>9. ASSUME NEW p \in DataPackets, ReceiveElsewhere(p)
      PROVE  LinkInv'
  <2>1. p.inDev # Link /\ p \in Packets /\ UNCHANGED <<sending, frames, m_paused>>
    BY <1>3, <1>9 DEF ReceiveElsewhere
  <2>2. /\ UsedOf(Admitted(mmu, p)) = UsedOf(mmu)
        /\ PausedOf(Admitted(mmu, p)) = PausedOf(mmu)
    BY <1>1, <2>1, ElsewhereView
  <2>3. CASE Admit(p) /\ UNCHANGED back
    <3>1. mmu' = Admitted(mmu, p) /\ Accounts(mmu', held')
      BY <1>1, <2>1, <2>3, AdmitPreserves DEF Admit
    <3> QED
      BY <1>1, <2>1, <2>2, <2>3, <3>1 DEF LinkInv, Inv, LinkView
  <2>4. CASE MayLeave(p) /\ CutThrough(p) /\ back' = Leaves(back, p)
    <3> DEFINE a == Admitted(mmu, p)
    <3>1. /\ p \notin held /\ Accounts(a, held \cup {p}) /\ mmu' = Released(a, p)
          /\ held' = held
      BY <1>1, <2>1, <2>4, AdmitPreserves DEF CutThrough
    <3>2. Counted(a, p) /\ a \in MmuType
      BY <3>1, CountedInBuffer DEF Accounts, Holds
    <3>3. UsedOf(mmu') = UsedOf(mmu) /\ PausedOf(mmu') = PausedOf(mmu)
      BY <2>1, <2>2, <3>1, <3>2, ElsewhereView
    <3> HIDE DEF a
    <3>4. Accounts(mmu', held')
      <4>1. Accounts(mmu', (held \cup {p}) \ {p})
        BY <3>1, ReleasePreserves
      <4> QED
        BY <3>1, <4>1
    <3> QED
      BY <1>8, <2>1, <2>4, <3>3, <3>4 DEF LinkInv, Inv, LinkView
  <2>5. CASE Drop(p) /\ UNCHANGED back
    <3>1. mmu' = AfterChecks(mmu, p) /\ held' = held /\ Accounts(mmu', held')
      BY <1>1, <2>1, <2>5, ChecksPreserve DEF Drop
    <3>2. UsedOf(mmu') = UsedOf(mmu) /\ PausedOf(mmu') = PausedOf(mmu)
      BY <1>1, <2>1, <3>1, AfterChecksCounters DEF SameCounters, UsedOf, PausedOf
    <3> QED
      BY <1>1, <2>1, <2>5, <3>1, <3>2 DEF LinkInv, Inv, LinkView
  <2> QED
    BY <1>9, <2>3, <2>4, <2>5 DEF ReceiveElsewhere
<1>10. ASSUME NEW p \in DataPackets, Depart(p)
       PROVE  LinkInv'
  <2>1. /\ p \in Packets /\ MayLeave(p) /\ UNCHANGED <<sending, frames, m_paused>>
        /\ p \in held /\ mmu' = Released(mmu, p) /\ Counted(mmu, p)
        /\ Accounts(mmu', held')
    BY <1>1, <1>3, <1>4, <1>10, ReleasePreserves DEF Depart, Release
  <2>2. CASE p.inDev = Link
    <3>1. p \in LinkPackets /\ back' = Tell(back, p.qIndex, mmu, mmu')
      BY <1>10, <2>2 DEF Depart, LinkPackets
    <3>2. LinkView(mmu', sending, frames, m_paused, back')
      BY <1>1, <2>1, <3>1, LinkReleased
    <3> QED
      BY <2>1, <3>2 DEF LinkInv, Inv
  <2>3. CASE p.inDev # Link
    <3>1. UsedOf(mmu') = UsedOf(mmu) /\ PausedOf(mmu') = PausedOf(mmu)
      BY <1>1, <2>1, <2>3, ElsewhereView
    <3>2. back' = Leaves(back, p)
      BY <1>10, <2>3 DEF Depart
    <3> QED
      BY <1>8, <2>1, <3>1, <3>2 DEF LinkInv, Inv, LinkView
  <2> QED
    BY <2>2, <2>3
<1>11. ASSUME NEW size \in 1 .. MaxAhead, ControlFrame(size)
       PROVE  LinkInv'
  <2>1. /\ back.busy + size <= MaxAhead /\ UNCHANGED <<mmu, held, sending, frames, m_paused>>
        /\ back' = [busy |-> back.busy + size, pfcs |-> back.pfcs]
    BY <1>1, <1>11 DEF ControlFrame
  <2>2. /\ back.busy \in Nat /\ back.busy + size \in Nat /\ back.busy <= back.busy + size
    BY <1>1, LinkConstants DEF LinkState, Typed
  <2>3. LinkState(UsedOf(mmu), PausedOf(mmu), sending, frames, m_paused,
                  back.busy + size, back.pfcs)
    BY <1>1, <2>1, <2>2, DeviceBusy
  <2> QED
    BY <1>1, <2>1, <2>3 DEF LinkInv, Inv, LinkView
<1>12. ASSUME Tick
       PROVE  LinkInv'
  <2>1. /\ \A f \in frames \cup back.pfcs : f.eta > 0
        /\ UNCHANGED <<mmu, held, m_paused>>
        /\ sending' = Earlier(sending)
        /\ frames' = {Nearer(f) : f \in frames}
        /\ back' = [busy |-> Earlier(back.busy), pfcs |-> {Nearer(g) : g \in back.pfcs}]
    BY <1>12 DEF Tick, Nearer
  <2>2. LinkState(UsedOf(mmu), PausedOf(mmu), Earlier(sending), {Nearer(f) : f \in frames},
                  m_paused, Earlier(back.busy), {Nearer(g) : g \in back.pfcs})
    BY <1>1, <2>1, TimePassed
  <2> QED
    BY <1>1, <2>1, <2>2 DEF LinkInv, Inv, LinkView
<1>13. CASE UNCHANGED linkVars
  BY <1>1, <1>13 DEF linkVars, LinkInv, Inv
<1> QED
  BY <1>5, <1>6, <1>7, <1>9, <1>10, <1>11, <1>12, <1>13 DEF LinkNext

\* The clocks hold in every state, and so does the accounting of the buffer.
THEOREM LinkInvHolds == LinkSpec => []LinkInv
BY InitLink, LinkStep, PTL DEF LinkSpec

-------------------------------------------------------------------------------
(* What it implies *)

\* A headroom of HeadroomNeeded holds every lossless packet that arrives on the
\* link, for every delay, every size and every number of priorities: the switch's
\* decisions, the other ports and the reverse direction do not matter.
THEOREM HeadroomHolds == LinkSpec => []HeadroomSuffices
<1>1. LinkInv => HeadroomSuffices
  <2> SUFFICES ASSUME LinkInv, NEW f \in frames, f.eta = 0, f.pkt.type = LOSSLESS
               PROVE  mmu.xoffUsed[In(f.pkt)] + f.pkt.size <= HeadroomNeeded
    BY DEF HeadroomSuffices
  <2> DEFINE p == f.pkt
             q == p.qIndex
             u == UsedOf(mmu)
             pa == PausedOf(mmu)
  <2>1. /\ mmu \in MmuType
        /\ Typed(u, pa, sending, frames, m_paused, back.busy, back.pfcs)
        /\ Told(pa, m_paused, back.pfcs)
        /\ HeadroomClock(u, pa, frames, back.pfcs)
    BY DEF LinkInv, Inv, Accounts, Holds, LinkView, LinkState
  <2>2. p \in LinkPackets
    BY <2>1 DEF Typed, Frame
  <2>3. /\ q \in DataQueues /\ In(p) = <<Link, q>>
        /\ p.size \in Nat /\ p.size <= MaxSize
    BY <2>2, LinkPacketFields
  <2>4. /\ u \in [DataQueues -> Nat] /\ pa \in [DataQueues -> BOOLEAN]
        /\ u[q] = mmu.xoffUsed[In(p)] /\ u[q] \in Nat
    BY <2>1, <2>3, ViewTypes
  <2> HIDE DEF u, pa
  <2>5. HeadroomNeeded = Entry + MaxSize + Delay /\ HeadroomNeeded \in Nat
    BY LinkConstants DEF HeadroomNeeded, Entry
  <2>6. u[q] + p.size <= Entry + MaxSize + Delay
    <3>1. CASE \A g \in back.pfcs : g.q # q
      <4>1. u[q] + p.size + f.eta <= Entry + MaxSize + Delay + f.eta
        BY <2>1, <2>3, <3>1 DEF HeadroomClock
      <4> QED
        BY <2>3, <2>4, <4>1, LinkConstants
    <3>2. CASE \E g \in back.pfcs : g.q = q
      <4>1. CASE pa[q]
        <5>1. PICK g \in back.pfcs : g.q = q /\ Last(back.pfcs, g) /\ g.pause = pa[q]
          BY <2>1, <2>3, <3>2 DEF Told
        <5>2. u[q] + g.eta + p.size <= Entry + f.eta
          BY <2>1, <2>3, <4>1, <5>1 DEF HeadroomClock
        <5>3. g.eta \in Nat
          BY <2>1, <5>1 DEF Typed, PfcFrame
        <5> QED
          BY <2>3, <2>4, <5>2, <5>3, LinkConstants
      <4>2. CASE ~pa[q]
        <5>1. u[q] = 0
          BY <2>1, <2>3, <4>2 DEF HeadroomClock
        <5> QED
          BY <2>3, <5>1, LinkConstants
      <4> QED
        BY <4>1, <4>2
    <3> QED
      BY <3>1, <3>2
  <2> QED
    BY <2>4, <2>5, <2>6
<1> QED
  BY <1>1, LinkInvHolds, PTL

\* The assertion of Resume: a resume that arrives finds its priority paused.
THEOREM ResumesMatch == LinkSpec => []ResumeFindsPause
<1>1. LinkInv => ResumeFindsPause
  <2> SUFFICES ASSUME LinkInv, NEW g \in back.pfcs, g.eta = 0, ~g.pause
               PROVE  g.q \in m_paused
    BY DEF ResumeFindsPause
  <2>1. /\ Alternate(m_paused, back.pfcs)
        /\ \A h \in back.pfcs : h.eta \in Nat
    BY DEF LinkInv, LinkView, LinkState, Typed, PfcFrame
  <2> QED
    BY <2>1 DEF Alternate
<1> QED
  BY <1>1, LinkInvHolds, PTL

-------------------------------------------------------------------------------
(* No loss *)

\* To the buffer, a step of the link is one of its own steps, or none.
LEMMA BufferStep ==
  ASSUME LinkInv, [LinkNext]_linkVars
  PROVE  [Next]_vars
<1>1. \A f \in frames : f.pkt \in DataPackets
  BY DEF LinkInv, LinkView, LinkState, Typed, Frame, LinkPackets
<1>2. ASSUME NEW p \in LinkPackets, TransmitStart(p)
      PROVE  [Next]_vars
  BY <1>2 DEF TransmitStart, vars
<1>3. ASSUME NEW f \in frames, Receive(f)
      PROVE  [Next]_vars
  BY <1>1, <1>3 DEF Receive, Next, vars
<1>4. ASSUME NEW g \in back.pfcs, ReceivePfc(g)
      PROVE  [Next]_vars
  BY <1>4 DEF ReceivePfc, vars
<1>5. ASSUME NEW p \in DataPackets, ReceiveElsewhere(p) \/ Depart(p)
      PROVE  [Next]_vars
  BY <1>5 DEF ReceiveElsewhere, Depart, Next
<1>6. ASSUME NEW size \in 1 .. MaxAhead, ControlFrame(size)
      PROVE  [Next]_vars
  BY <1>6 DEF ControlFrame, vars
<1>7. CASE Tick
  BY <1>7 DEF Tick, vars
<1>8. CASE UNCHANGED linkVars
  BY <1>8 DEF linkVars, vars
<1> QED
  BY <1>2, <1>3, <1>4, <1>5, <1>6, <1>7, <1>8 DEF LinkNext

\* A quotient is at least what its dividend covers.
LEMMA QuotientCovers ==
  ASSUME NEW a \in Nat, NEW b \in Nat, NEW u \in Nat \ {0}, b * u <= a
  PROVE  b <= a \div u
<1> DEFINE d == a \div u
<1>1. d \in Nat /\ a < (d + 1) * u
  OBVIOUS
<1> HIDE DEF d
<1> SUFFICES ASSUME d + 1 <= b
             PROVE  FALSE
  BY <1>1 DEF d
<1>2. (d + 1) * u <= b * u
  <2> DEFINE x == b - (d + 1)
  <2>1. x \in Nat /\ b = (d + 1) + x
    BY <1>1
  <2> HIDE DEF x
  <2>2. b * u = (d + 1) * u + x * u /\ x * u \in Nat
    BY <1>1, <2>1
  <2>3. (d + 1) * u \in Int
    BY <1>1
  <2> QED
    BY <2>2, <2>3
<1>3. (d + 1) * u \in Int /\ b * u \in Int
  BY <1>1
<1> QED
  BY <1>1, <1>2, <1>3

\* A product grows with its factor.
LEMMA ProductGrows ==
  ASSUME NEW a \in Nat, NEW x \in Nat, NEW y \in Nat, x <= y
  PROVE  a * x \in Nat /\ a * y \in Nat /\ a * x <= a * y
<1> DEFINE z == y - x
<1>1. z \in Nat /\ y = x + z
  OBVIOUS
<1> HIDE DEF z
<1>2. a * y = a * x + a * z /\ a * x \in Nat /\ a * z \in Nat
  BY <1>1
<1> QED
  BY <1>2

\* A lossless packet of the link that the buffer has room for passes the egress
\* check: the threshold is no smaller than the buffer.
LEMMA EgressPasses ==
  ASSUME NoDropConfiguration, NEW m, NEW H, Accounts(m, H),
         NEW p \in LinkPackets, p.type = LOSSLESS,
         p.size + m.totalUsed <= bufferPool
  PROVE  CheckEgressAdmission(m, p)
<1> DEFINE o == Out(p)
           a == Alpha(egressAlg[LOSSLESS], alphaEgress[o], p.unsched)
           left == Monus(egressPool[LOSSLESS], m.egressPoolUsed[LOSSLESS])
<1>1. /\ p \in DataPackets /\ p \in Packets /\ o \in PortQueue /\ p.size \in Nat
      /\ LOSSLESS \in Classes
  BY LinkPacketFields, PacketFields DEF Classes
<1>2. /\ egressPool[LOSSLESS] \in Nat /\ bufferPool \in Nat /\ AlphaUnit \in Nat \ {0}
      /\ alphaEgress[o] \in Nat /\ alphaHigh \in Nat
  BY <1>1, MmuConfiguration
<1>3. a \in Nat
  BY <1>2 DEF Alpha
<1>4. /\ m.totalUsed \in Nat
      /\ m.egress_bytes[o] \in Nat /\ m.egress_bytes[o] <= m.totalUsed
      /\ m.egressPoolUsed[LOSSLESS] \in Nat /\ m.egressPoolUsed[LOSSLESS] <= m.totalUsed
  <2>1. /\ m \in MmuType /\ H \in SUBSET Packets /\ IsFiniteSet(H)
        /\ m.totalUsed = Bytes(H)
        /\ m.egress_bytes[o] = Bytes(To(H, o))
        /\ m.egressPoolUsed[LOSSLESS] = Bytes(OfClass(H, LOSSLESS))
    BY <1>1 DEF Accounts, Holds, BytesMatch, DataPackets
  <2>2. To(H, o) \in SUBSET H /\ OfClass(H, LOSSLESS) \in SUBSET H
    BY DEF To, OfClass
  <2>3. Bytes(To(H, o)) <= Bytes(H) /\ Bytes(OfClass(H, LOSSLESS)) <= Bytes(H)
    BY <2>1, <2>2, BytesPart
  <2> QED
    BY <1>1, <2>1, <2>3 DEF MmuType
<1>5. /\ bufferModel = "sonic" /\ bufferPool <= egressPool[LOSSLESS]
      /\ bufferPool * AlphaUnit <= a * p.size
  BY DEF NoDropConfiguration, LosslessConfiguration
<1>6. left \in Nat /\ p.size <= left
  BY <1>1, <1>2, <1>4, <1>5 DEF Monus
<1> HIDE DEF a, left
<1>7. bufferPool <= (a * left) \div AlphaUnit
  <2>1. a * p.size \in Nat /\ a * left \in Nat /\ a * p.size <= a * left
    BY <1>1, <1>3, <1>6, ProductGrows
  <2>2. bufferPool * AlphaUnit \in Nat
    BY <1>2, ProductGrows
  <2>3. bufferPool * AlphaUnit <= a * left
    BY <1>5, <2>1, <2>2
  <2> QED
    BY <1>2, <2>1, <2>3, QuotientCovers
<1>8. (a * left) \div AlphaUnit = EgressThreshold(m, o, p.type, p.unsched)
  BY DEF EgressThreshold, ShareOf, a, left
<1>9. EgressThreshold(m, o, p.type, p.unsched) \in Int
  <2>1. a * left \in Nat
    BY <1>3, <1>6, ProductGrows
  <2> QED
    BY <1>2, <1>8, <2>1
<1>10. p.size + m.egress_bytes[o] <= EgressThreshold(m, o, p.type, p.unsched)
  BY <1>1, <1>2, <1>4, <1>7, <1>8, <1>9
<1>11. p.size + m.egressPoolUsed[LOSSLESS] <= egressPool[LOSSLESS]
  BY <1>1, <1>2, <1>4, <1>5
<1> QED
  BY <1>5, <1>10, <1>11 DEF CheckEgressAdmission, CheckEgressSonic

\* No lossless packet that arrives on the link is dropped, neither at the ingress nor
\* at the egress, and whatever else the switch holds.
THEOREM LinkIsLossless ==
  NoDropConfiguration => (LinkSpec => []NeverDropped)
<1> SUFFICES ASSUME NoDropConfiguration
             PROVE  LinkSpec => []NeverDropped
  OBVIOUS
<1> DEFINE Within == SharedWithin(mmu)
<1>1. LosslessConfiguration
  BY DEF NoDropConfiguration
<1>2. LinkInit => Within
  BY LimitTypes DEF LinkInit, Init, NewMmu, SharedWithin
<1>3. LinkInv /\ Within /\ [LinkNext]_linkVars => Within'
  BY <1>1, BufferStep, SharedStep DEF LinkInv
<1>4. LinkInv /\ Within /\ HeadroomSuffices => NeverDropped
  <2> SUFFICES ASSUME LinkInv, SharedWithin(mmu), HeadroomSuffices,
                      NEW f \in frames, f.eta = 0, f.pkt.type = LOSSLESS
               PROVE  Admits(mmu, f.pkt)
    BY DEF NeverDropped
  <2> DEFINE p == f.pkt
  <2>1. p \in LinkPackets /\ Accounts(mmu, held)
    BY DEF LinkInv, Inv, LinkView, LinkState, Typed, Frame
  <2>2. /\ p \in DataPackets /\ p \in Packets /\ p.size \in Nat /\ In(p) \in PortQueue
        /\ mmu.xoffUsed[In(p)] \in Nat
    BY <2>1, LinkPacketFields, PacketFields DEF Accounts, Holds, MmuType
  <2>3. /\ mmu.xoffUsed[In(p)] + p.size <= HeadroomNeeded
        /\ HeadroomNeeded <= xoff[In(p)]
    BY <2>1 DEF HeadroomSuffices, NoDropConfiguration
  <2>4. p.size + mmu.xoffUsed[In(p)] <= xoff[In(p)]
    <3>1. HeadroomNeeded \in Int
      BY LinkConstants DEF HeadroomNeeded
    <3> QED
      BY <2>2, <2>3, <3>1, LimitTypes
  <2>5. p.type = LOSSLESS
    OBVIOUS
  <2> HIDE DEF p
  <2>6. CheckIngressAdmission(mmu, p) /\ p.size + mmu.totalUsed <= bufferPool
    BY <1>1, <2>1, <2>2, <2>4, <2>5, RoomSuffices
  <2>7. CheckEgressAdmission(mmu, p)
    BY <2>1, <2>5, <2>6, EgressPasses
  <2> QED
    BY <2>6, <2>7 DEF Admits, p
<1> HIDE DEF Within
<1> QED
  BY <1>2, <1>3, <1>4, LinkInvHolds, HeadroomHolds, PTL DEF LinkSpec
===============================================================================
